---------------------------- MODULE Spec2Model ----------------------------
(***************************************************************************)
(* A model of the IPC publication of the media driver                      *)
(* (aeron-driver/src/main/c/aeron_ipc_publication.c): flow control         *)
(* (update_pub_lmt, clean_buffer), the untethered-subscription state       *)
(* machine, blocked-publisher detection and the lifecycle                  *)
(* ACTIVE -> INACTIVE -> LINGER driven by incref/decref and on_time_event. *)
(*                                                                         *)
(* The conductor is single threaded: each conductor operation is one       *)
(* action.  Publishers and subscribers are other processes that touch the  *)
(* shared counters and the log meta data; each of their steps is an action *)
(* of its own.  decref is split at its last ordered store, so that a       *)
(* reader of the shared memory can see the state between the two stores.   *)
(*                                                                         *)
(* Positions are byte positions.  TLC's integers are 32 bits wide, so the  *)
(* int64_t of the source is modelled as a two's complement integer of      *)
(* IntBits bits; every position of the model stays far below its maximum.  *)
(***************************************************************************)
EXTENDS Integers, Sequences, FiniteSets, TLC

(***************************************************************************)
(* Bounds of the model.                                                    *)
(***************************************************************************)
\* width in bits of the two's complement integers that stand for int64_t
IntBits == 16
\* subscriber and producer positions are explored up to MaxFrames frames
MaxFrames == 3
\* the nano clock is explored up to MaxTime
MaxTime == 3
\* publishers attached at once (refcnt is explored up to MaxRefs)
MaxRefs == 2
\* the archive's recording grows to at most this position
MaxRecording == 2
\* direct calls of clean_buffer made one after the other with one argument
MaxCleanCalls == 2

(***************************************************************************)
(* Parameters of the publication under test (set by create from params     *)
(* and the driver context).                                                *)
(***************************************************************************)
\* params->term_length, a power of two
TERM_LENGTH == 64
\* context->ipc_publication_window_length
IPC_PUBLICATION_WINDOW_LENGTH == 32
\* context->untethered_window_limit_timeout_ns
UNTETHERED_WINDOW_LIMIT_TIMEOUT_NS == 0
\* context->untethered_resting_timeout_ns
UNTETHERED_RESTING_TIMEOUT_NS == 0
\* context->publication_unblock_timeout_ns
PUBLICATION_UNBLOCK_TIMEOUT_NS == 1
\* initial_term_id
INITIAL_TERM_ID == 5
\* frames, and so every position a publisher or a subscriber stores, are
\* aligned to FRAME_ALIGNMENT bytes
FRAME_ALIGNMENT == 32
AERON_LOGBUFFER_PARTITION_COUNT == 3
\* the subscription links of the conductor (registration ids); whether a
\* subscription is a tether is a parameter of the subscription
Links == {1, 2}
IsTether(id) == id = 1

INT64_MAX == 2^(IntBits - 1) - 1
INT64_MIN == -(2^(IntBits - 1))

\* the result of a signed addition as the hardware produces it
WrapInt64(x) == ((x - INT64_MIN) % 2^IntBits) + INT64_MIN

MinOf(a, b) == IF a < b THEN a ELSE b
MaxOf(a, b) == IF a > b THEN a ELSE b

MaxPos == MaxFrames * FRAME_ALIGNMENT

\* aeron_subscription_tether_state_t
TETHER_ACTIVE == "TETHER_ACTIVE"
TETHER_LINGER == "TETHER_LINGER"
TETHER_RESTING == "TETHER_RESTING"
\* aeron_ipc_publication_state_t
STATE_ACTIVE == "ACTIVE"
STATE_INACTIVE == "INACTIVE"
STATE_LINGER == "LINGER"

NO_STORE == 0 - 1

VARIABLES
    \* log meta data (shared memory)
    term_tail_counters,     \* [0..P-1 -> [term_id, term_offset]]: (term_id << 32) | term_offset
    active_term_count,
    end_of_stream_position,
    \* counters (shared memory)
    pub_lmt,                \* *pub_lmt_position.value_addr
    pub_pos_stored,         \* the value the step just taken stored into
                            \* *pub_pos_position.value_addr, NO_STORE if it stored none:
                            \* no operation of the publication reads this counter
    unblocker_calls,        \* how many calls of aeron_logbuffer_unblocker_unblock
                            \* the step just taken made
    unblocked_publications_added,   \* what the step just taken added to the system
                            \* counter *unblocked_publications_counter, which
                            \* the driver shares between its publications
    \* conductor_fields.subscribable.array: a sequence of
    \* [id, position, is_tether, state, time_of_last_update_ns], where position
    \* is the value of the subscriber's counter (*value_addr)
    subscribable,
    \* is_exclusive, fixed by create
    is_exclusive,
    \* conductor->context: [untethered_window_limit_timeout_ns,
    \* untethered_resting_timeout_ns]
    context,
    \* what create was given: [is_replay, term_id, term_offset]
    params,
    \* conductor_fields
    consumer_position,
    last_consumer_position,
    clean_position,
    trip_limit,
    time_of_last_consumer_position_change,
    state,
    refcnt,
    has_reached_end_of_life,
    time_of_last_state_change,
    \* the conductor: its clock, where it stands in decref, and decref's local
    now,
    pc,
    decref_producer_position,
    \* which operation the last step was ("other": one the model keeps no name
    \* for), what it returned and the conductor callbacks (on_available_image,
    \* on_unavailable_image) it made, in order
    op,
    ret,
    events,
    \* history: what has happened to the subscribable set since the last call of
    \* update_pub_lmt: "nothing", "set" (a subscriber was added or removed or its
    \* tether state changed, and no position changed) or "moved" (a subscriber
    \* position changed, or update_pub_lmt has not been called yet); "repeat" in
    \* the state a call leaves that found "nothing"
    since_update,
    \* the conductor's pointer to the publication: "allocated" or "null"
    publication_ptr,
    \* the last call of close: [arg, reads, freed, unmapped, outcome], where arg
    \* is the pointer it was given, reads the fields of the publication it
    \* read, freed the counters it gave back to the counters manager, unmapped
    \* whether it closed the mapped raw log, and outcome "none" (no call yet),
    \* "returned" or "fault"
    close_call,
    \* the ReplayMerge object: [m_state, m_image, m_activeCorrelationId,
    \* m_nextTargetPosition, m_replaySessionId, m_isLiveAdded, m_isReplayActive]
    replay_merge,
    \* the archive behind m_archive: [recording_position, response_ready,
    \* replay_session], where response_ready says that the response to the
    \* request with the active correlation id can be polled and replay_session
    \* is "none", "running", "lost" or "stopped"
    archive,
    \* the image of the replay session in m_subscription: [available, position,
    \* active_transport_count]
    image,
    \* what the last step did to the ReplayMerge object: [op, fragmentLimit,
    \* calls, polled, polled_limit, fragments, ret], where op is "new",
    \* "doWork", "poll", "destructor" or "none" (a step of the archive or of
    \* the subscription), fragmentLimit the argument of poll, calls the calls
    \* the operation made in order ("doWork", "image.poll"), polled the image it
    \* polled and polled_limit the limit it passed to that poll, fragments the
    \* number of fragments handed to the handler and ret what it returned
    merge_call,
    \* the bytes of the mapped term buffers that are not zero, as a set of
    \* ranges <<from, to>> (from included, to excluded) of addresses, the
    \* partitions laid out one after the other; the ranges are apart from one
    \* another and none is empty
    term_buffers,
    \* the direct calls of clean_buffer: [position, calls, from, stores,
    \* outcome], where position is the argument, calls how many calls were made
    \* with it, from the clean_position the last call found, stores the stores
    \* of the last call in order, each [store, from, to], and outcome "none"
    \* (no call yet), "returned" or "fault"
    clean_call

log_vars == <<term_tail_counters, active_term_count, end_of_stream_position>>
counter_vars == <<pub_lmt, pub_pos_stored, unblocker_calls, unblocked_publications_added>>
flow_vars == <<consumer_position, clean_position, trip_limit>>
blocked_vars == <<last_consumer_position, time_of_last_consumer_position_change>>
life_vars == <<state, refcnt, has_reached_end_of_life, time_of_last_state_change>>
config_vars == <<is_exclusive, context, params>>
conductor_vars == <<now, pc, decref_producer_position, config_vars>>
call_vars == <<op, ret, events>>
close_vars == <<publication_ptr, close_call>>
\* what no operation on a live publication touches: its teardown and the
\* archive client's replay merge
merge_vars == <<replay_merge, archive, image, merge_call>>
buffer_vars == <<term_buffers, clean_call>>
apart_vars == <<close_vars, merge_vars, buffer_vars>>
vars == <<log_vars, counter_vars, subscribable, flow_vars, blocked_vars, life_vars,
          conductor_vars, call_vars, since_update, apart_vars>>

\* the conductor deletes a publication in the sweep that finds
\* has_reached_end_of_life set: it makes a call on a publication only between
\* two other calls and only while it still manages the publication
ConductorIdle == pc = "idle" /\ ~has_reached_end_of_life

\* the log buffer and the counters are there for the clients until the
\* conductor deletes the publication
LogMapped == ~has_reached_end_of_life

\* a step that does not call the unblocker
NoUnblockerCall ==
    /\ unblocker_calls' = 0
    /\ unblocked_publications_added' = 0

\* since_update after a step that made a change of the given kind
SinceUpdateAfter(kind) ==
    IF since_update = "moved" \/ kind = "moved" THEN "moved"
    ELSE IF since_update = "set" \/ kind = "set" THEN "set"
    ELSE "nothing"

\* the kind of change between two values of the subscribable array
ChangeOf(before, after) ==
    IF Len(before) # Len(after) THEN "set"
    ELSE IF \E i \in 1..Len(before) : before[i].position # after[i].position THEN "moved"
    ELSE IF \E i \in 1..Len(before) : before[i].state # after[i].state THEN "set"
    ELSE "nothing"

(***************************************************************************)
(* The log buffer descriptor and the inline functions of                   *)
(* aeron_ipc_publication.h.                                                *)
(***************************************************************************)
\* aeron_number_of_trailing_zeroes(term_length), term_length a power of two
RECURSIVE NumberOfTrailingZeroes(_)
NumberOfTrailingZeroes(n) == IF n % 2 = 1 THEN 0 ELSE 1 + NumberOfTrailingZeroes(n \div 2)

position_bits_to_shift == NumberOfTrailingZeroes(TERM_LENGTH)

\* aeron_producer_window_length(configured, term_length)
ProducerWindowLength(configured, term_length) ==
    IF configured # 0 /\ configured < term_length \div 2 THEN configured ELSE term_length \div 2

term_window_length == ProducerWindowLength(IPC_PUBLICATION_WINDOW_LENGTH, TERM_LENGTH)

trip_gain == term_window_length \div 8

IndexByTermCount(term_count) == term_count % AERON_LOGBUFFER_PARTITION_COUNT

IndexByPosition(position) == (position \div 2^position_bits_to_shift) % AERON_LOGBUFFER_PARTITION_COUNT

\* aeron_logbuffer_compute_position(term_id, term_offset, bits, initial_term_id)
ComputePosition(term_id, term_offset, initial_term_id) ==
    (term_id - initial_term_id) * 2^position_bits_to_shift + term_offset

\* aeron_ipc_publication_producer_position: the position of the raw tail of the
\* active partition, its offset capped at the term length
ProducerPositionOf(tails, term_count) ==
    LET raw_tail == tails[IndexByTermCount(term_count)]
    IN  ComputePosition(raw_tail.term_id, MinOf(raw_tail.term_offset, TERM_LENGTH), INITIAL_TERM_ID)

producer_position == ProducerPositionOf(term_tail_counters, active_term_count)

\* aeron_ipc_publication_joining_position
joining_position == consumer_position

\* aeron_ipc_publication_is_drained
is_drained ==
    \A i \in 1..Len(subscribable) : subscribable[i].position >= producer_position

\* aeron_ipc_publication_is_possibly_blocked
IsPossiblyBlocked(producer_pos, consumer_pos) == producer_pos > consumer_pos

(***************************************************************************)
(* ReplayMerge (ReplayMerge.h).  The header holds the fields, doWork, poll, *)
(* isMerged and the two predicates; the five state handlers, the           *)
(* constructor and the destructor are only declared in it and follow the   *)
(* state table of the design.  Positions count fragments.                  *)
(***************************************************************************)
NULL_VALUE == 0 - 1

\* LogBufferDescriptor::TERM_MIN_LENGTH, in fragments
TERM_MIN_LENGTH == 4
REPLAY_MERGE_LIVE_ADD_THRESHOLD == TERM_MIN_LENGTH \div 4
REPLAY_MERGE_REPLAY_REMOVE_THRESHOLD == 0

\* m_startPosition
START_POSITION == 0

\* the fragment limits the application passes to poll
FragmentLimits == {1, 2}

\* enum State
GET_RECORDING_POSITION == "GET_RECORDING_POSITION"
REPLAY == "REPLAY"
CATCHUP == "CATCHUP"
ATTEMPT_LIVE_JOIN == "ATTEMPT_LIVE_JOIN"
STOP_REPLAY == "STOP_REPLAY"
MERGED == "MERGED"
CLOSED == "CLOSED"

\* the values of m_image: no image, or the image of the replay session
nullptr == "nullptr"
REPLAY_IMAGE == "replay_image"

\* the one correlation id outstanding at a time, and the replay's session id
CORRELATION_ID == 1
REPLAY_SESSION_ID == 1

\* the member initialisers
ReplayMergeFields ==
    [m_state |-> GET_RECORDING_POSITION,
     m_image |-> nullptr,
     m_activeCorrelationId |-> NULL_VALUE,
     m_nextTargetPosition |-> NULL_VALUE,
     m_replaySessionId |-> NULL_VALUE,
     m_isLiveAdded |-> FALSE,
     m_isReplayActive |-> FALSE]

\* the record of an operation that polls no image
MergeCall(operation, returned) ==
    [op |-> operation, fragmentLimit |-> 0, calls |-> <<>>, polled |-> nullptr,
     polled_limit |-> 0, fragments |-> 0, ret |-> returned]

\* a newly constructed ReplayMerge, over an archive whose recording is under
\* way and a subscription without images
ReplayMergeNew ==
    /\ replay_merge = ReplayMergeFields
    /\ archive = [recording_position |-> START_POSITION, response_ready |-> FALSE,
                  replay_session |-> "none"]
    /\ image = [available |-> FALSE, position |-> START_POSITION, active_transport_count |-> 0]
    /\ merge_call = MergeCall("new", 0)

\* an isMerged that answers true while the replay is still being stopped
isMerged_OrStopping(rm) == rm.m_state \in {STOP_REPLAY, MERGED}

isMerged(rm) == rm.m_state = MERGED

shouldAddLiveDestination(rm, position) ==
    ~rm.m_isLiveAdded /\ (rm.m_nextTargetPosition - position) <= REPLAY_MERGE_LIVE_ADD_THRESHOLD

\* a predicate content with the replay's transport alone
shouldStopAndRemoveReplay_OneTransport(rm, img, position) ==
    /\ rm.m_isLiveAdded
    /\ (rm.m_nextTargetPosition - position) <= REPLAY_MERGE_REPLAY_REMOVE_THRESHOLD
    /\ img.active_transport_count >= 1

\* img is the image m_image points to
shouldStopAndRemoveReplay(rm, img, position) ==
    /\ rm.m_isLiveAdded
    /\ (rm.m_nextTargetPosition - position) <= REPLAY_MERGE_REPLAY_REMOVE_THRESHOLD
    /\ img.active_transport_count >= 2

\* what a handler leaves behind: the object, the archive and its work count
Worked(rm, ar) == [rm |-> rm, archive |-> ar, workCount |-> 1]
Idle(rm, ar) == [rm |-> rm, archive |-> ar, workCount |-> 0]

\* a request to the archive under a new correlation id
SendRequest(rm, ar) ==
    Worked([rm EXCEPT !.m_activeCorrelationId = CORRELATION_ID],
           [ar EXCEPT !.response_ready = FALSE])

\* the response to the active request has arrived
pollForResponse(rm, ar) == ar.response_ready

getRecordingPosition(rm, ar, img) ==
    IF rm.m_activeCorrelationId = NULL_VALUE THEN SendRequest(rm, ar)
    ELSE IF pollForResponse(rm, ar)
    THEN Worked([rm EXCEPT !.m_nextTargetPosition = ar.recording_position,
                           !.m_activeCorrelationId = NULL_VALUE,
                           !.m_state = REPLAY],
                ar)
    ELSE Idle(rm, ar)

replay(rm, ar, img) ==
    IF rm.m_activeCorrelationId = NULL_VALUE THEN SendRequest(rm, ar)
    ELSE IF pollForResponse(rm, ar)
    THEN Worked([rm EXCEPT !.m_isReplayActive = TRUE,
                           !.m_replaySessionId = REPLAY_SESSION_ID,
                           !.m_activeCorrelationId = NULL_VALUE,
                           !.m_state = CATCHUP],
                [ar EXCEPT !.replay_session = "running"])
    ELSE Idle(rm, ar)

\* the image of the replay session has appeared, or the session ended before
\* it did
catchup(rm, ar, img) ==
    IF rm.m_image = nullptr /\ img.available
    THEN Worked([rm EXCEPT !.m_image = REPLAY_IMAGE, !.m_state = ATTEMPT_LIVE_JOIN], ar)
    ELSE IF ar.replay_session = "lost"
    THEN Worked([rm EXCEPT !.m_isReplayActive = FALSE,
                           !.m_replaySessionId = NULL_VALUE,
                           !.m_state = GET_RECORDING_POSITION],
                [ar EXCEPT !.replay_session = "none"])
    ELSE Idle(rm, ar)

attemptLiveJoin(rm, ar, img) ==
    IF rm.m_activeCorrelationId = NULL_VALUE THEN SendRequest(rm, ar)
    ELSE IF pollForResponse(rm, ar)
    THEN LET refreshed == [rm EXCEPT !.m_nextTargetPosition = ar.recording_position,
                                     !.m_activeCorrelationId = NULL_VALUE]
         IN  IF shouldAddLiveDestination(refreshed, img.position)
             THEN Worked([refreshed EXCEPT !.m_isLiveAdded = TRUE], ar)
             ELSE IF shouldStopAndRemoveReplay(refreshed, img, img.position)
             THEN Worked([refreshed EXCEPT !.m_state = STOP_REPLAY], ar)
             ELSE Worked(refreshed, ar)
    ELSE Idle(rm, ar)

stopReplay(rm, ar, img) ==
    IF rm.m_activeCorrelationId = NULL_VALUE THEN SendRequest(rm, ar)
    ELSE IF pollForResponse(rm, ar)
    THEN Worked([rm EXCEPT !.m_isReplayActive = FALSE,
                           !.m_activeCorrelationId = NULL_VALUE,
                           !.m_state = MERGED],
                [ar EXCEPT !.replay_session = "stopped"])
    ELSE Idle(rm, ar)

\* a switch whose default label sits on the first case
doWork_DefaultFirst(rm, ar, img) ==
    CASE rm.m_state = REPLAY -> replay(rm, ar, img)
      [] rm.m_state = CATCHUP -> catchup(rm, ar, img)
      [] rm.m_state = ATTEMPT_LIVE_JOIN -> attemptLiveJoin(rm, ar, img)
      [] rm.m_state = STOP_REPLAY -> stopReplay(rm, ar, img)
      [] OTHER -> getRecordingPosition(rm, ar, img)

doWork(rm, ar, img) ==
    CASE rm.m_state = GET_RECORDING_POSITION -> getRecordingPosition(rm, ar, img)
      [] rm.m_state = REPLAY -> replay(rm, ar, img)
      [] rm.m_state = CATCHUP -> catchup(rm, ar, img)
      [] rm.m_state = ATTEMPT_LIVE_JOIN -> attemptLiveJoin(rm, ar, img)
      [] rm.m_state = STOP_REPLAY -> stopReplay(rm, ar, img)
      [] OTHER -> Idle(rm, ar)

\* a poll that tests m_image as it was when poll was entered
PolledImage_BeforeDoWork(before, after) == before.m_image

\* the image poll tests and polls: m_image after doWork
PolledImage(before, after) == after.m_image

\* the fragments the image can hand over: those recorded past its position
AvailableFragments(ar, img) == MaxOf(ar.recording_position - img.position, 0)

\* ~ReplayMerge
Destructor(rm, ar) ==
    IF rm.m_state # CLOSED
    THEN [rm |-> [rm EXCEPT !.m_isReplayActive = FALSE, !.m_state = CLOSED],
          archive |-> IF rm.m_isReplayActive THEN [ar EXCEPT !.replay_session = "stopped"]
                      ELSE ar]
    ELSE [rm |-> rm, archive |-> ar]

\* the publication of the driver is left alone by the archive client
PublicationUntouched ==
    UNCHANGED <<log_vars, counter_vars, subscribable, flow_vars, blocked_vars, life_vars,
                conductor_vars, call_vars, since_update, close_vars, buffer_vars>>

\* the object lives until its destructor has run
ReplayMergeAlive == replay_merge.m_state # CLOSED

DoWork ==
    /\ ReplayMergeAlive
    /\ LET done == doWork(replay_merge, archive, image)
       IN  /\ replay_merge' = done.rm
           /\ archive' = done.archive
           /\ merge_call' = MergeCall("doWork", done.workCount)
    /\ UNCHANGED image
    /\ PublicationUntouched

Poll ==
    /\ ReplayMergeAlive
    /\ \E fragmentLimit \in FragmentLimits :
        LET done == doWork(replay_merge, archive, image)
            polled == PolledImage(replay_merge, done.rm)
        IN  /\ replay_merge' = done.rm
            /\ archive' = done.archive
            /\ IF nullptr = polled
               THEN /\ merge_call' = [op |-> "poll", fragmentLimit |-> fragmentLimit,
                                      calls |-> <<"doWork">>, polled |-> nullptr,
                                      polled_limit |-> 0, fragments |-> 0, ret |-> 0]
                    /\ UNCHANGED image
               ELSE \E n \in 0..MinOf(fragmentLimit, AvailableFragments(done.archive, image)) :
                    /\ image' = [image EXCEPT !.position = @ + n]
                    /\ merge_call' = [op |-> "poll", fragmentLimit |-> fragmentLimit,
                                      calls |-> <<"doWork", "image.poll">>, polled |-> polled,
                                      polled_limit |-> fragmentLimit, fragments |-> n,
                                      ret |-> n]
    /\ PublicationUntouched

Destroy ==
    /\ ReplayMergeAlive
    /\ LET done == Destructor(replay_merge, archive)
       IN  /\ replay_merge' = done.rm
           /\ archive' = done.archive
    /\ merge_call' = MergeCall("destructor", 0)
    /\ UNCHANGED image
    /\ PublicationUntouched

\* the archive answers the outstanding request
ArchiveResponds ==
    /\ ReplayMergeAlive
    /\ replay_merge.m_activeCorrelationId # NULL_VALUE
    /\ ~archive.response_ready
    /\ archive' = [archive EXCEPT !.response_ready = TRUE]
    /\ merge_call' = MergeCall("none", 0)
    /\ UNCHANGED <<replay_merge, image>>
    /\ PublicationUntouched

\* the live stream is recorded further
RecordingAdvances ==
    /\ ReplayMergeAlive
    /\ archive.recording_position < MaxRecording
    /\ archive' = [archive EXCEPT !.recording_position = @ + 1]
    /\ merge_call' = MergeCall("none", 0)
    /\ UNCHANGED <<replay_merge, image>>
    /\ PublicationUntouched

\* the subscription gets the image of the running replay session, fed by the
\* replay destination alone
ReplayImageAppears ==
    /\ ReplayMergeAlive
    /\ archive.replay_session = "running"
    /\ ~image.available
    /\ image' = [available |-> TRUE, position |-> START_POSITION, active_transport_count |-> 1]
    /\ merge_call' = MergeCall("none", 0)
    /\ UNCHANGED <<replay_merge, archive>>
    /\ PublicationUntouched

\* the live destination, once added, starts to feed the image too
LiveTransportJoins ==
    /\ ReplayMergeAlive
    /\ replay_merge.m_isLiveAdded
    /\ image.available
    /\ image.active_transport_count = 1
    /\ image' = [image EXCEPT !.active_transport_count = 2]
    /\ merge_call' = MergeCall("none", 0)
    /\ UNCHANGED <<replay_merge, archive>>
    /\ PublicationUntouched

\* the replay session ends before its image has appeared
ReplaySessionLost ==
    /\ ReplayMergeAlive
    /\ archive.replay_session = "running"
    /\ ~image.available
    /\ archive' = [archive EXCEPT !.replay_session = "lost"]
    /\ merge_call' = MergeCall("none", 0)
    /\ UNCHANGED <<replay_merge, image>>
    /\ PublicationUntouched

NextMerge ==
    \/ DoWork
    \/ Poll
    \/ Destroy
    \/ ArchiveResponds
    \/ RecordingAdvances
    \/ ReplayImageAppears
    \/ LiveTransportJoins
    \/ ReplaySessionLost

(***************************************************************************)
(* aeron_ipc_publication_create: the log meta data and the conductor       *)
(* fields after construction.                                              *)
(***************************************************************************)
\* the raw tail (term_id << 32) | term_offset, kept as its two halves
RawTail(term_id, term_offset) == [term_id |-> term_id, term_offset |-> term_offset]

\* the tail counters create stores: in replay mode the active index takes
\* (term_id, term_offset) and the others, walking forward from it, take
\* term_id + i - PARTITION_COUNT; otherwise index 0 takes the initial term id
CreateTailCounters(is_replay, initial_term_id, term_id, term_offset) ==
    LET P == AERON_LOGBUFFER_PARTITION_COUNT
        active_index == IndexByTermCount(term_id - initial_term_id)
    IN  IF is_replay
        THEN [idx \in 0..(P - 1) |->
                LET i == (idx - active_index) % P
                IN  IF i = 0 THEN RawTail(term_id, term_offset)
                    ELSE RawTail((term_id + i) - P, 0)]
        ELSE [idx \in 0..(P - 1) |->
                IF idx = 0 THEN RawTail(initial_term_id, 0)
                ELSE RawTail((initial_term_id + idx) - P, 0)]

\* active_term_count after create: the branch's value is overwritten by the
\* unconditional store of 0 that follows the branches
CreateActiveTermCount(is_replay, initial_term_id, term_id) ==
    LET in_branch == IF is_replay THEN term_id - initial_term_id ELSE 0
    IN  0

\* no call of close yet
NoCloseCall == [arg |-> "none", reads |-> {}, freed |-> {}, unmapped |-> FALSE, outcome |-> "none"]

\* no direct call of clean_buffer
NoCleanCall == [position |-> 0, calls |-> 0, from |-> 0, stores |-> <<>>, outcome |-> "none"]

\* the driver context of the publication under test
DriverContext ==
    [untethered_window_limit_timeout_ns |-> UNTETHERED_WINDOW_LIMIT_TIMEOUT_NS,
     untethered_resting_timeout_ns |-> UNTETHERED_RESTING_TIMEOUT_NS]

\* create with the given is_exclusive and, in replay mode, the term id and the
\* term offset to resume from
CreateWith(exclusive, is_replay, term_id, term_offset) ==
    /\ is_exclusive = exclusive
    /\ context = DriverContext
    /\ params = [is_replay |-> is_replay, term_id |-> term_id, term_offset |-> term_offset]
    /\ term_tail_counters = CreateTailCounters(is_replay, INITIAL_TERM_ID, term_id, term_offset)
    /\ active_term_count = CreateActiveTermCount(is_replay, INITIAL_TERM_ID, term_id)
    /\ end_of_stream_position = INT64_MAX
    /\ pub_lmt = 0
    /\ pub_pos_stored = NO_STORE
    /\ unblocker_calls = 0
    /\ unblocked_publications_added = 0
    /\ subscribable = <<>>
    /\ has_reached_end_of_life = FALSE
    /\ trip_limit = 0
    /\ now = 0
    /\ time_of_last_consumer_position_change = 0
    /\ state = STATE_ACTIVE
    /\ refcnt = 1
    /\ time_of_last_state_change = 0
    /\ consumer_position =
           ProducerPositionOf(CreateTailCounters(is_replay, INITIAL_TERM_ID, term_id, term_offset),
                              CreateActiveTermCount(is_replay, INITIAL_TERM_ID, term_id))
    /\ last_consumer_position = consumer_position
    /\ clean_position = consumer_position
    /\ pc = "idle"
    /\ decref_producer_position = 0
    /\ op = "create"
    /\ ret = 0
    /\ events = <<>>
    /\ since_update = "moved"
    /\ publication_ptr = "allocated"
    /\ close_call = NoCloseCall
    /\ term_buffers = {}
    /\ clean_call = NoCleanCall

\* create with the given is_exclusive, outside replay mode
Create(exclusive) == CreateWith(exclusive, FALSE, INITIAL_TERM_ID, 0)

Init == Create(TRUE) /\ ReplayMergeNew

\* the archive client at work beside an idle publication
SpecMerge == Init /\ [][NextMerge]_vars

(***************************************************************************)
(* aeron_ipc_publication_clean_buffer                                      *)
(***************************************************************************)
\* sizeof(int64_t): the frame length word at the head of the range
SIZE_OF_INT64 == 8

\* a clean_buffer that zeroes to the end of the term whatever the position
CleanLength_WholeTerm(clean_pos, position) == TERM_LENGTH - (clean_pos % TERM_LENGTH)

\* a clean_buffer that zeroes up to the position across the end of the term
CleanLength_AcrossTerms(clean_pos, position) == position - clean_pos

\* the number of bytes one call zeroes: up to position, never past the end of
\* the term that holds clean_pos
CleanLength(clean_pos, position) ==
    LET bytes_to_clean == position - clean_pos
        term_offset == clean_pos % TERM_LENGTH
        bytes_left_in_term == TERM_LENGTH - term_offset
    IN  IF bytes_to_clean < bytes_left_in_term THEN bytes_to_clean ELSE bytes_left_in_term

\* a clean_buffer that advances clean_position by the length of the memset
CleanBuffer_ByMemsetLength(clean_pos, position) ==
    IF position > clean_pos
    THEN clean_pos + (CleanLength(clean_pos, position) - SIZE_OF_INT64)
    ELSE clean_pos

\* conductor_fields.clean_position after clean_buffer(position)
CleanBuffer(clean_pos, position) ==
    IF position > clean_pos THEN clean_pos + CleanLength(clean_pos, position) ELSE clean_pos

\* the address of a byte of mapped_raw_log.term_buffers[index]
TermBufferAddr(index, offset) == (index * TERM_LENGTH) + offset

\* the end of the mapped term buffers
LogLength == AERON_LOGBUFFER_PARTITION_COUNT * TERM_LENGTH

\* a value of type size_t
SizeT(n) == n % 2^IntBits

\* the term buffers after the bytes from from up to to were set to zero
ZeroRange(buffers, from, to) ==
    IF from >= to THEN buffers
    ELSE {<<r[1], MinOf(r[2], from)>> : r \in {q \in buffers : q[1] < from}}
            \cup {<<MaxOf(r[1], to), r[2]>> : r \in {q \in buffers : q[2] > to}}

\* the term buffers after a frame was written from from up to to
DirtyRange(buffers, from, to) ==
    LET touching == {r \in buffers : r[1] <= to /\ r[2] >= from}
        lowest == CHOOSE a \in {from} \cup {r[1] : r \in touching} :
                      \A b \in {from} \cup {r[1] : r \in touching} : a <= b
        highest == CHOOSE a \in {to} \cup {r[2] : r \in touching} :
                       \A b \in {to} \cup {r[2] : r \in touching} : a >= b
    IN  (buffers \ touching) \cup {<<lowest, highest>>}

\* the addresses of the bytes that are not zero
DirtyBytes(buffers) == UNION {r[1]..(r[2] - 1) : r \in buffers}

\* length - sizeof(int64_t), in size_t
MemsetLength(length) == SizeT(length - SIZE_OF_INT64)

\* the stores of clean_buffer(position), position > clean_pos, in order: the
\* memset past the frame length word, then the ordered store of the word
CleanStores(clean_pos, position) ==
    LET dirty_index == IndexByPosition(clean_pos)
        term_offset == clean_pos % TERM_LENGTH
        length == CleanLength(clean_pos, position)
        memset_from == TermBufferAddr(dirty_index, term_offset + SIZE_OF_INT64)
    IN  <<[store |-> "memset", from |-> memset_from, to |-> memset_from + MemsetLength(length)],
          [store |-> "put_ordered",
           from |-> TermBufferAddr(dirty_index, term_offset),
           to |-> TermBufferAddr(dirty_index, term_offset) + SIZE_OF_INT64]>>

\* the term buffers after the stores from index i on
RECURSIVE ApplyStores(_, _, _)
ApplyStores(buffers, stores, i) ==
    IF i > Len(stores) THEN buffers
    ELSE ApplyStores(ZeroRange(buffers, stores[i].from, stores[i].to), stores, i + 1)

\* the term buffers after clean_buffer(position)
CleanedBuffers(buffers, clean_pos, position) ==
    IF position > clean_pos THEN ApplyStores(buffers, CleanStores(clean_pos, position), 1)
    ELSE buffers

\* a store that ends past the last address a mapping can have: it runs off
\* the end of the mapped log and the process faults
RunsOffTheMapping(stores) == \E i \in 1..Len(stores) : stores[i].to > INT64_MAX

\* how far a memset that runs off the mapping got before the fault: nowhere
\* (it works from the end of its range down) or through the term buffers
WildExtents(from) == {from, LogLength}

\* a direct call of clean_buffer with the argument clean_call.position
CleanBufferDirect ==
    /\ ConductorIdle
    /\ clean_call.outcome # "fault"
    /\ clean_call.calls < MaxCleanCalls
    /\ LET position == clean_call.position
           stores == CleanStores(clean_position, position)
       IN  IF position > clean_position
           THEN IF RunsOffTheMapping(stores)
                THEN /\ \E extent \in WildExtents(stores[1].from) :
                            /\ term_buffers' = ZeroRange(term_buffers, stores[1].from, extent)
                            /\ clean_call' =
                                   [clean_call EXCEPT
                                       !.calls = @ + 1,
                                       !.from = clean_position,
                                       !.stores = <<[stores[1] EXCEPT !.to = extent]>>,
                                       !.outcome = "fault"]
                     /\ UNCHANGED clean_position
                ELSE /\ term_buffers' = CleanedBuffers(term_buffers, clean_position, position)
                     /\ clean_position' = CleanBuffer(clean_position, position)
                     /\ clean_call' = [clean_call EXCEPT !.calls = @ + 1,
                                                         !.from = clean_position,
                                                         !.stores = stores,
                                                         !.outcome = "returned"]
           ELSE /\ clean_call' = [clean_call EXCEPT !.calls = @ + 1,
                                                    !.from = clean_position,
                                                    !.stores = <<>>,
                                                    !.outcome = "returned"]
                /\ UNCHANGED <<term_buffers, clean_position>>
    /\ op' = "clean_buffer"
    /\ ret' = 0
    /\ events' = <<>>
    /\ pub_pos_stored' = NO_STORE
    /\ NoUnblockerCall
    /\ UNCHANGED <<log_vars, pub_lmt, subscribable, consumer_position, trip_limit, blocked_vars,
                   life_vars, conductor_vars, since_update, close_vars, merge_vars>>

(***************************************************************************)
(* aeron_ipc_publication_update_pub_lmt                                    *)
(***************************************************************************)
\* the scan of the subscribable array from index i on: <<min_sub_pos, max_sub_pos>>
RECURSIVE ScanPositions(_, _, _, _)
ScanPositions(array, i, min_sub_pos, max_sub_pos) ==
    IF i > Len(array) THEN <<min_sub_pos, max_sub_pos>>
    ELSE IF array[i].state # TETHER_RESTING
         THEN ScanPositions(array, i + 1,
                            IF array[i].position < min_sub_pos THEN array[i].position ELSE min_sub_pos,
                            IF array[i].position > max_sub_pos THEN array[i].position ELSE max_sub_pos)
         ELSE ScanPositions(array, i + 1, min_sub_pos, max_sub_pos)

\* the condition of the branch that stores max_sub_pos into pub_lmt and
\* trip_limit: the length of the array, already known not to be 0
NoneContributed(array, min_sub_pos) == 0 = Len(array)

\* a limit that leaves the publishers two windows
ProposedLimit_TwoWindows(min_sub_pos) == WrapInt64(min_sub_pos + 2 * term_window_length)

\* min_sub_pos + term_window_length in int64_t arithmetic
ProposedLimit(min_sub_pos) == WrapInt64(min_sub_pos + term_window_length)

ShouldTrip(proposed_limit, trip) == proposed_limit > trip

\* a trip limit without the gain
TripLimitAfter_NoGain(proposed_limit) == proposed_limit

\* a trip limit below the limit just stored
TripLimitAfter_Below(proposed_limit) == proposed_limit - trip_gain

TripLimitAfter(proposed_limit) == proposed_limit + trip_gain

UpdatePubLmt ==
    /\ ConductorIdle
    /\ op' = "update_pub_lmt"
    /\ since_update' = IF since_update \in {"nothing", "repeat"} THEN "repeat" ELSE "nothing"
    /\ events' = <<>>
    /\ IF 0 = Len(subscribable)
       THEN /\ ret' = 0
            /\ UNCHANGED <<pub_lmt, flow_vars, term_buffers>>
       ELSE LET scan == ScanPositions(subscribable, 1, INT64_MAX, consumer_position)
                min_sub_pos == scan[1]
                max_sub_pos == scan[2]
                proposed_limit == ProposedLimit(min_sub_pos)
            IN  IF NoneContributed(subscribable, min_sub_pos)
                THEN /\ pub_lmt' = max_sub_pos
                     /\ trip_limit' = max_sub_pos
                     /\ ret' = 0
                     /\ UNCHANGED <<consumer_position, clean_position, term_buffers>>
                ELSE /\ IF ShouldTrip(proposed_limit, trip_limit)
                        THEN /\ term_buffers' =
                                    CleanedBuffers(term_buffers, clean_position, min_sub_pos)
                             /\ clean_position' = CleanBuffer(clean_position, min_sub_pos)
                             /\ pub_lmt' = proposed_limit
                             /\ trip_limit' = TripLimitAfter(proposed_limit)
                             /\ ret' = 1
                        ELSE /\ ret' = 0
                             /\ UNCHANGED <<pub_lmt, clean_position, trip_limit, term_buffers>>
                     /\ consumer_position' = max_sub_pos
    /\ pub_pos_stored' = NO_STORE
    /\ NoUnblockerCall
    /\ UNCHANGED <<log_vars, subscribable, blocked_vars,
                   life_vars, conductor_vars, close_vars, merge_vars, clean_call>>

(***************************************************************************)
(* aeron_ipc_publication_check_untethered_subscriptions                    *)
(***************************************************************************)
UnavailableImage(sub_id) == [type |-> "unavailable_image", subscription |-> sub_id]
AvailableImage(sub_id) == [type |-> "available_image", subscription |-> sub_id]

\* a window limit with the gain taken off instead of added
UntetheredWindowLimit_MinusGain(consumer_pos) ==
    (consumer_pos - term_window_length) - (term_window_length \div 8)

UntetheredWindowLimit(consumer_pos) ==
    (consumer_pos - term_window_length) + (term_window_length \div 8)

\* a window that takes in the position at its limit
WithinWindow_AtLimit(position, untethered_window_limit) ==
    position >= untethered_window_limit

\* position > untethered_window_limit
WithinWindow(position, untethered_window_limit) ==
    position > untethered_window_limit

\* a deadline that passes as soon as the clock reaches it
HasTimedOut_AtDeadline(now_ns, time_of_last_update_ns, timeout_ns) ==
    now_ns >= time_of_last_update_ns + timeout_ns

\* now_ns > (time_of_last_update_ns + timeout_ns)
HasTimedOut(now_ns, time_of_last_update_ns, timeout_ns) ==
    now_ns > time_of_last_update_ns + timeout_ns

\* one tetherable position after the check at now_ns, and the callbacks made
\* for it: [sub, events]
CheckTetherablePosition(tp, consumer_pos, now_ns) ==
    IF tp.is_tether
    THEN [sub |-> [tp EXCEPT !.time_of_last_update_ns = now_ns], events |-> <<>>]
    ELSE IF tp.state = TETHER_ACTIVE
    THEN IF WithinWindow(tp.position, UntetheredWindowLimit(consumer_pos))
         THEN [sub |-> [tp EXCEPT !.time_of_last_update_ns = now_ns], events |-> <<>>]
         ELSE IF HasTimedOut(now_ns, tp.time_of_last_update_ns, context.untethered_window_limit_timeout_ns)
         THEN [sub |-> [tp EXCEPT !.state = TETHER_LINGER, !.time_of_last_update_ns = now_ns],
               events |-> <<UnavailableImage(tp.id)>>]
         ELSE [sub |-> tp, events |-> <<>>]
    ELSE IF tp.state = TETHER_LINGER
    THEN IF HasTimedOut(now_ns, tp.time_of_last_update_ns, context.untethered_window_limit_timeout_ns)
         THEN [sub |-> [tp EXCEPT !.state = TETHER_RESTING, !.time_of_last_update_ns = now_ns],
               events |-> <<>>]
         ELSE [sub |-> tp, events |-> <<>>]
    ELSE IF HasTimedOut(now_ns, tp.time_of_last_update_ns, context.untethered_resting_timeout_ns)
         THEN [sub |-> [tp EXCEPT !.position = consumer_pos, !.state = TETHER_ACTIVE,
                                  !.time_of_last_update_ns = now_ns],
               events |-> <<AvailableImage(tp.id)>>]
         ELSE [sub |-> tp, events |-> <<>>]

\* the loop over the array from index i on: [array, events]
RECURSIVE CheckUntetheredSubscriptions(_, _, _, _)
CheckUntetheredSubscriptions(array, i, consumer_pos, now_ns) ==
    IF i > Len(array) THEN [array |-> <<>>, events |-> <<>>]
    ELSE LET one == CheckTetherablePosition(array[i], consumer_pos, now_ns)
             rest == CheckUntetheredSubscriptions(array, i + 1, consumer_pos, now_ns)
         IN  [array |-> <<one.sub>> \o rest.array, events |-> one.events \o rest.events]

(***************************************************************************)
(* aeron_logbuffer_unblocker_unblock: whether a frame at blocked_position  *)
(* was abandoned half written is a fact of the term buffer; it can be      *)
(* unblocked only where the producer is past blocked_position.             *)
(***************************************************************************)
UnblockOutcomes(blocked_position) ==
    IF producer_position > blocked_position
    THEN BOOLEAN ELSE {FALSE}

\* the call of the unblocker and the increment of the counter when it
\* returns true
UnblockAndCount(blocked_position) ==
    /\ unblocker_calls' = 1
    /\ \E unblocked \in UnblockOutcomes(blocked_position) :
            unblocked_publications_added' = IF unblocked THEN 1 ELSE 0

(***************************************************************************)
(* aeron_ipc_publication_check_for_blocked_publisher                       *)
(***************************************************************************)
\* a timeout that has passed as soon as the clock reaches it
UnblockTimedOut_AtDeadline(now_ns) ==
    now_ns >= time_of_last_consumer_position_change + PUBLICATION_UNBLOCK_TIMEOUT_NS

UnblockTimedOut(now_ns) ==
    now_ns > time_of_last_consumer_position_change + PUBLICATION_UNBLOCK_TIMEOUT_NS

CheckForBlockedPublisher(producer_pos, now_ns) ==
    IF /\ consumer_position = last_consumer_position
       /\ IsPossiblyBlocked(producer_pos, consumer_position)
    THEN /\ IF UnblockTimedOut(now_ns)
            THEN UnblockAndCount(consumer_position)
            ELSE NoUnblockerCall
         /\ UNCHANGED blocked_vars
    ELSE /\ time_of_last_consumer_position_change' = now_ns
         /\ last_consumer_position' = consumer_position
         /\ NoUnblockerCall

(***************************************************************************)
(* aeron_ipc_publication_on_time_event                                     *)
(***************************************************************************)
\* conductor->ipc_subscriptions filtered by is_subscribable_linked, in order:
\* a link is linked to the publication while its position is in the array
LinkedSubscriptions == [i \in 1..Len(subscribable) |-> subscribable[i].id]

OnTimeEventActive(now_ns) ==
    /\ LET checked == CheckUntetheredSubscriptions(subscribable, 1, consumer_position, now_ns)
       IN  /\ subscribable' = checked.array
           /\ events' = checked.events
    /\ IF ~is_exclusive
       THEN CheckForBlockedPublisher(producer_position, now_ns)
       ELSE /\ NoUnblockerCall
            /\ UNCHANGED blocked_vars
    /\ UNCHANGED life_vars

\* the callbacks of the move to LINGER: one for each link of links, in order
UnavailableImages(links) == [i \in 1..Len(links) |-> UnavailableImage(links[i])]

OnTimeEventInactive(now_ns) ==
    /\ IF is_drained
       THEN /\ state' = STATE_LINGER
            /\ time_of_last_state_change' = now_ns
            /\ events' = UnavailableImages(LinkedSubscriptions)
            /\ NoUnblockerCall
            /\ UNCHANGED <<refcnt, has_reached_end_of_life>>
       ELSE /\ UnblockAndCount(consumer_position)
            /\ events' = <<>>
            /\ UNCHANGED life_vars
    /\ UNCHANGED <<subscribable, blocked_vars>>

OnTimeEventLinger(now_ns) ==
    /\ has_reached_end_of_life' = TRUE
    /\ events' = <<>>
    /\ NoUnblockerCall
    /\ UNCHANGED <<state, refcnt, time_of_last_state_change, subscribable, blocked_vars>>

\* the clock is monotonic: the conductor passes its latest reading
OnTimeEvent ==
    /\ ConductorIdle
    /\ \E now_ns \in now..MinOf(now + 1, MaxTime) :
        /\ now' = now_ns
        /\ pub_pos_stored' = producer_position
        /\ CASE state = STATE_ACTIVE -> OnTimeEventActive(now_ns)
             [] state = STATE_INACTIVE -> OnTimeEventInactive(now_ns)
             [] state = STATE_LINGER -> OnTimeEventLinger(now_ns)
    /\ op' = "on_time_event"
    /\ since_update' = SinceUpdateAfter(ChangeOf(subscribable, subscribable'))
    /\ ret' = 0
    /\ UNCHANGED <<log_vars, pub_lmt, flow_vars, pc, decref_producer_position, config_vars, apart_vars>>

(***************************************************************************)
(* aeron_ipc_publication_incref, aeron_ipc_publication_decref              *)
(***************************************************************************)
Incref ==
    /\ ConductorIdle
    /\ refcnt < MaxRefs
    /\ refcnt' = refcnt + 1
    /\ op' = "other"
    /\ since_update' = SinceUpdateAfter("nothing")
    /\ ret' = 0
    /\ events' = <<>>
    /\ pub_pos_stored' = NO_STORE
    /\ NoUnblockerCall
    /\ UNCHANGED <<log_vars, pub_lmt, subscribable, flow_vars, blocked_vars, state,
                   has_reached_end_of_life, time_of_last_state_change, conductor_vars, apart_vars>>

\* a decref that forgets the clamp
ClampPubLmt_None(lmt, producer_pos) == lmt

\* pub_lmt after the clamp to the producer position
ClampPubLmt(lmt, producer_pos) == IF lmt > producer_pos THEN producer_pos ELSE lmt

\* decref up to and including the ordered store of pub_lmt; every detach
\* answers an earlier attach, so refcnt is positive before it
Decref ==
    /\ ConductorIdle
    /\ refcnt > 0
    /\ refcnt' = refcnt - 1
    /\ IF 0 = refcnt - 1
       THEN /\ state' = STATE_INACTIVE
            /\ decref_producer_position' = producer_position
            /\ pub_lmt' = ClampPubLmt(pub_lmt, producer_position)
            /\ pc' = "decref_end_of_stream"
       ELSE UNCHANGED <<state, decref_producer_position, pub_lmt, pc>>
    /\ op' = "decref"
    /\ since_update' = SinceUpdateAfter("nothing")
    /\ ret' = 0
    /\ events' = <<>>
    /\ pub_pos_stored' = NO_STORE
    /\ NoUnblockerCall
    /\ UNCHANGED <<log_vars, subscribable, flow_vars,
                   blocked_vars, has_reached_end_of_life, time_of_last_state_change, now,
                   config_vars, apart_vars>>

\* the value decref stores into end_of_stream_position
EndOfStreamValue(producer_pos) == producer_pos

\* the last statement of decref: the ordered store of end_of_stream_position
DecrefEndOfStream ==
    /\ pc = "decref_end_of_stream"
    /\ end_of_stream_position' = EndOfStreamValue(decref_producer_position)
    /\ pc' = "idle"
    /\ op' = "decref"
    /\ since_update' = SinceUpdateAfter("nothing")
    /\ ret' = 0
    /\ events' = <<>>
    /\ pub_pos_stored' = NO_STORE
    /\ NoUnblockerCall
    /\ UNCHANGED <<term_tail_counters, active_term_count, pub_lmt, subscribable,
                   flow_vars, blocked_vars, life_vars, now, decref_producer_position,
                   config_vars, apart_vars>>

(***************************************************************************)
(* The subscribable set: the conductor links a subscription to an ACTIVE   *)
(* publication, appending its position at the joining position, and        *)
(* unlinks it by removing the position from the array.                     *)
(***************************************************************************)
LinkedIds == {subscribable[i].id : i \in 1..Len(subscribable)}

AddSubscriber ==
    /\ ConductorIdle
    /\ state = STATE_ACTIVE
    /\ \E id \in Links \ LinkedIds :
        subscribable' = Append(subscribable,
            [id |-> id, position |-> joining_position, is_tether |-> IsTether(id),
             state |-> TETHER_ACTIVE, time_of_last_update_ns |-> now])
    /\ op' = "other"
    /\ since_update' = SinceUpdateAfter("set")
    /\ ret' = 0
    /\ events' = <<>>
    /\ pub_pos_stored' = NO_STORE
    /\ NoUnblockerCall
    /\ UNCHANGED <<log_vars, pub_lmt, flow_vars, blocked_vars, life_vars,
                   conductor_vars, apart_vars>>

RemoveAt(array, i) == SubSeq(array, 1, i - 1) \o SubSeq(array, i + 1, Len(array))

RemoveSubscriber ==
    /\ ConductorIdle
    /\ \E i \in 1..Len(subscribable) : subscribable' = RemoveAt(subscribable, i)
    /\ op' = "other"
    /\ since_update' = SinceUpdateAfter("set")
    /\ ret' = 0
    /\ events' = <<>>
    /\ pub_pos_stored' = NO_STORE
    /\ NoUnblockerCall
    /\ UNCHANGED <<log_vars, pub_lmt, flow_vars, blocked_vars, life_vars,
                   conductor_vars, apart_vars>>

(***************************************************************************)
(* The other processes.  A subscriber whose image is available consumes    *)
(* whole frames up to the producer position and stores its new position;   *)
(* a publisher, while one is attached, appends a frame while the producer  *)
(* position is below the publication limit, rotating to the next term at   *)
(* the end of the active one.                                              *)
(***************************************************************************)
AlignedPositions == {n * FRAME_ALIGNMENT : n \in 0..MaxFrames}

SubscriberAdvance ==
    /\ LogMapped
    /\ \E i \in 1..Len(subscribable) :
        /\ subscribable[i].state # TETHER_RESTING
        /\ \E p \in AlignedPositions :
            /\ p > subscribable[i].position
            /\ p <= producer_position
            /\ subscribable' = [subscribable EXCEPT ![i].position = p]
    /\ op' = "other"
    /\ since_update' = SinceUpdateAfter("moved")
    /\ ret' = 0
    /\ events' = <<>>
    /\ pub_pos_stored' = NO_STORE
    /\ NoUnblockerCall
    /\ UNCHANGED <<log_vars, pub_lmt, flow_vars, blocked_vars, life_vars,
                   conductor_vars, apart_vars>>

PublisherAppend ==
    /\ LogMapped
    /\ refcnt > 0
    /\ producer_position < pub_lmt
    /\ producer_position + FRAME_ALIGNMENT <= MaxPos
    /\ LET index == IndexByTermCount(active_term_count)
           raw_tail == term_tail_counters[index]
       IN  IF raw_tail.term_offset + FRAME_ALIGNMENT <= TERM_LENGTH
           THEN /\ term_tail_counters' =
                       [term_tail_counters EXCEPT ![index].term_offset = @ + FRAME_ALIGNMENT]
                /\ term_buffers' =
                       DirtyRange(term_buffers,
                                  TermBufferAddr(index, raw_tail.term_offset),
                                  TermBufferAddr(index, raw_tail.term_offset + FRAME_ALIGNMENT))
                /\ UNCHANGED active_term_count
           ELSE /\ term_tail_counters' =
                       [term_tail_counters EXCEPT
                           ![IndexByTermCount(active_term_count + 1)] =
                               RawTail(raw_tail.term_id + 1, FRAME_ALIGNMENT)]
                /\ term_buffers' =
                       DirtyRange(term_buffers,
                                  TermBufferAddr(IndexByTermCount(active_term_count + 1), 0),
                                  TermBufferAddr(IndexByTermCount(active_term_count + 1),
                                                 FRAME_ALIGNMENT))
                /\ active_term_count' = active_term_count + 1
    /\ op' = "other"
    /\ since_update' = SinceUpdateAfter("nothing")
    /\ ret' = 0
    /\ events' = <<>>
    /\ pub_pos_stored' = NO_STORE
    /\ NoUnblockerCall
    /\ UNCHANGED <<end_of_stream_position, pub_lmt, subscribable, flow_vars, blocked_vars,
                   life_vars, conductor_vars, close_vars, merge_vars, clean_call>>

(***************************************************************************)
(* aeron_ipc_publication_close.  The conductor closes a publication it     *)
(* found at the end of its life and clears its pointer to it.  The         *)
(* function reads publication->pub_lmt_position.counter_id as its first    *)
(* statement and tests the pointer against NULL only after the loop over   *)
(* the subscribable array: with a null pointer the reads are undefined     *)
(* behaviour, which either faults at the first read or goes on with        *)
(* whatever the reads returned.                                            *)
(***************************************************************************)
\* the counters of a publication and of the positions of its subscribers, each
\* named by its kind and, for a subscriber position, the subscription
PublicationCounters(array) ==
    {<<"pub_lmt", 0>>, <<"pub_pos", 0>>} \cup {<<"sub_pos", array[i].id>> : i \in 1..Len(array)}

\* the counter ids a read through a wild pointer can return
CounterIds == {<<"pub_lmt", 0>>, <<"pub_pos", 0>>} \cup {<<"sub_pos", id>> : id \in Links}

\* the fields read before the test of the pointer, and after it
FieldsReadBeforeNullCheck ==
    {"pub_lmt_position.counter_id", "pub_pos_position.counter_id",
     "subscribable.length", "subscribable.array"}
FieldsReadAfterNullCheck == {"map_raw_log_close_func", "log_file_name"}

\* close of the publication the conductor's pointer refers to
Close ==
    /\ pc = "idle"
    /\ has_reached_end_of_life
    /\ publication_ptr = "allocated"
    /\ close_call' = [arg |-> "allocated",
                      reads |-> FieldsReadBeforeNullCheck \cup FieldsReadAfterNullCheck,
                      freed |-> PublicationCounters(subscribable),
                      unmapped |-> TRUE,
                      outcome |-> "returned"]
    /\ publication_ptr' = "null"
    /\ op' = "close"
    /\ ret' = 0
    /\ events' = <<>>
    /\ pub_pos_stored' = NO_STORE
    /\ NoUnblockerCall
    /\ UNCHANGED <<log_vars, pub_lmt, subscribable, flow_vars, blocked_vars, life_vars,
                   conductor_vars, since_update, merge_vars, buffer_vars>>

\* close with a null pointer: a fault at the first read, or the frees of
\* lines 177 to 184 with the counter ids the reads returned
CloseNull ==
    /\ publication_ptr = "null"
    /\ close_call.outcome # "fault"
    /\ \/ close_call' = [arg |-> "null",
                         reads |-> {"pub_lmt_position.counter_id"},
                         freed |-> {},
                         unmapped |-> FALSE,
                         outcome |-> "fault"]
       \/ \E wild \in (SUBSET CounterIds) \ {{}} :
              close_call' = [arg |-> "null",
                             reads |-> FieldsReadBeforeNullCheck,
                             freed |-> wild,
                             unmapped |-> FALSE,
                             outcome |-> "returned"]
    /\ op' = "close"
    /\ ret' = 0
    /\ events' = <<>>
    /\ pub_pos_stored' = NO_STORE
    /\ NoUnblockerCall
    /\ UNCHANGED <<log_vars, pub_lmt, subscribable, flow_vars, blocked_vars, life_vars,
                   conductor_vars, since_update, publication_ptr, merge_vars, buffer_vars>>

Next ==
    \/ UpdatePubLmt
    \/ OnTimeEvent
    \/ Incref
    \/ Decref
    \/ DecrefEndOfStream
    \/ AddSubscriber
    \/ RemoveSubscriber
    \/ SubscriberAdvance
    \/ PublisherAppend

Spec == Init /\ [][Next]_vars

\* the life of a publication from its subscribers linking to its close
NextClose ==
    \/ AddSubscriber
    \/ RemoveSubscriber
    \/ OnTimeEvent
    \/ Decref
    \/ DecrefEndOfStream
    \/ Close
    \/ CloseNull

SpecClose == Init /\ [][NextClose]_vars

(***************************************************************************)
(* A publication that several publishers share: its ticks look for a       *)
(* publisher that died in the middle of a frame.                           *)
(***************************************************************************)
InitBlocked == (\E exclusive \in BOOLEAN : Create(exclusive)) /\ ReplayMergeNew

\* the subscribers joining and consuming, the publishers appending, the limit
\* updates, the ticks and the last publisher's detach
NextBlocked ==
    \/ AddSubscriber
    \/ UpdatePubLmt
    \/ PublisherAppend
    \/ SubscriberAdvance
    \/ OnTimeEvent
    \/ Decref
    \/ DecrefEndOfStream

SpecBlocked == InitBlocked /\ [][NextBlocked]_vars

(***************************************************************************)
(* A publication created in replay mode, to resume a stream at the term id *)
(* and the term offset of params, and its first steps.                     *)
(***************************************************************************)
\* params->term_id: the initial term and the two after it
ReplayTermIds == {INITIAL_TERM_ID, INITIAL_TERM_ID + 1, INITIAL_TERM_ID + 2}

\* params->term_offset: the start of the term and one frame in
ReplayTermOffsets == {0, FRAME_ALIGNMENT}

InitReplay ==
    /\ \E term_id \in ReplayTermIds, term_offset \in ReplayTermOffsets :
            CreateWith(TRUE, TRUE, term_id, term_offset)
    /\ ReplayMergeNew

\* the subscribers joining and consuming, the publisher appending, the limit
\* updates and the ticks
NextReplay ==
    \/ AddSubscriber
    \/ UpdatePubLmt
    \/ PublisherAppend
    \/ SubscriberAdvance
    \/ OnTimeEvent

SpecReplay == InitReplay /\ [][NextReplay]_vars

(***************************************************************************)
(* The untethered-subscription state machine under every ordering of its   *)
(* two timeouts.  check_untethered_subscriptions reads the context's       *)
(* timeouts, consumer_position, the clock and each subscriber's position   *)
(* counter, state and time of last update; the publication is taken one    *)
(* frame into its life, linked to the tethered subscriber, which has       *)
(* consumed the frame, and to the untethered one, which is anywhere from   *)
(* the start of the window to its end.  The window limit is                *)
(* consumer_position - term_window_length + term_window_length / 8, so the *)
(* untethered subscriber's position is taken in steps of an eighth of the  *)
(* window: with the window, as configured, a multiple of eight frames,     *)
(* these are the frame boundaries.                                         *)
(***************************************************************************)
TetherTimeoutsNs == {0, 1}

TetherStates == {TETHER_ACTIVE, TETHER_LINGER, TETHER_RESTING}

\* the positions of the untethered subscriber: below, at and above the window
\* limit of a consumer position of one frame, and at the consumer position
TetherPositions == {0, trip_gain, 2 * trip_gain, FRAME_ALIGNMENT}

InitTether ==
    /\ is_exclusive = TRUE
    /\ \E w \in TetherTimeoutsNs, r \in TetherTimeoutsNs :
            context = [untethered_window_limit_timeout_ns |-> w,
                       untethered_resting_timeout_ns |-> r]
    /\ params = [is_replay |-> FALSE, term_id |-> INITIAL_TERM_ID, term_offset |-> 0]
    /\ term_tail_counters =
           [CreateTailCounters(FALSE, INITIAL_TERM_ID, INITIAL_TERM_ID, 0)
               EXCEPT ![0].term_offset = FRAME_ALIGNMENT]
    /\ active_term_count = 0
    /\ end_of_stream_position = INT64_MAX
    /\ pub_lmt = ProposedLimit(0)
    /\ trip_limit = TripLimitAfter(ProposedLimit(0))
    /\ pub_pos_stored = NO_STORE
    /\ unblocker_calls = 0
    /\ unblocked_publications_added = 0
    /\ \E n \in 0..1, t \in 0..1, st \in TetherStates, p \in TetherPositions :
            /\ t <= n
            /\ now = n
            /\ subscribable =
                   <<[id |-> 1, position |-> FRAME_ALIGNMENT, is_tether |-> IsTether(1),
                      state |-> TETHER_ACTIVE, time_of_last_update_ns |-> t],
                     [id |-> 2, position |-> p, is_tether |-> IsTether(2),
                      state |-> st, time_of_last_update_ns |-> t]>>
    /\ consumer_position = FRAME_ALIGNMENT
    /\ last_consumer_position = 0
    /\ clean_position = 0
    /\ time_of_last_consumer_position_change = 0
    /\ state = STATE_ACTIVE
    /\ refcnt = 1
    /\ has_reached_end_of_life = FALSE
    /\ time_of_last_state_change = 0
    /\ pc = "idle"
    /\ decref_producer_position = 0
    /\ op = "other"
    /\ ret = 0
    /\ events = <<>>
    /\ since_update = "moved"
    /\ publication_ptr = "allocated"
    /\ close_call = NoCloseCall
    /\ term_buffers = {<<TermBufferAddr(0, 0), TermBufferAddr(0, FRAME_ALIGNMENT)>>}
    /\ clean_call = NoCleanCall
    /\ ReplayMergeNew

\* the ticks, the limit updates between them, the subscribers consuming, the
\* publisher appending and its detach, after which the ticks leave the subscribers alone
NextTether ==
    \/ OnTimeEvent
    \/ UpdatePubLmt
    \/ SubscriberAdvance
    \/ PublisherAppend
    \/ Decref
    \/ DecrefEndOfStream

SpecTether == InitTether /\ [][NextTether]_vars

(***************************************************************************)
(* A stalled untethered subscriber.  The publication is taken right after  *)
(* create, linked to the tethered subscriber and to the untethered one at  *)
(* the joining position; the conductor goes on calling update_pub_lmt and  *)
(* on_time_event with a clock that advances, the publisher goes on         *)
(* appending while the producer position is below the limit, the tethered  *)
(* subscriber goes on consuming up to the producer position, and the       *)
(* untethered subscriber never stores a position.                          *)
(*                                                                         *)
(* The state machine reads the clock only in comparisons now_ns >          *)
(* time + timeout, so the origin of the clock is arbitrary: when the clock *)
(* has reached MaxTime, the origin is moved forward by one, and a time     *)
(* that was at the origin stays there.  A time at the origin is then at    *)
(* least MaxTime - 1 before now, which is past every timeout of the        *)
(* context, so no comparison changes its outcome.                          *)
(***************************************************************************)
\* the position both subscribers join at: consumer_position after create
StalledPosition ==
    ProducerPositionOf(CreateTailCounters(FALSE, INITIAL_TERM_ID, INITIAL_TERM_ID, 0),
                       CreateActiveTermCount(FALSE, INITIAL_TERM_ID, INITIAL_TERM_ID))

InitStalled ==
    /\ is_exclusive = TRUE
    /\ \E w \in TetherTimeoutsNs, r \in TetherTimeoutsNs :
            context = [untethered_window_limit_timeout_ns |-> w,
                       untethered_resting_timeout_ns |-> r]
    /\ params = [is_replay |-> FALSE, term_id |-> INITIAL_TERM_ID, term_offset |-> 0]
    /\ term_tail_counters = CreateTailCounters(FALSE, INITIAL_TERM_ID, INITIAL_TERM_ID, 0)
    /\ active_term_count = CreateActiveTermCount(FALSE, INITIAL_TERM_ID, INITIAL_TERM_ID)
    /\ end_of_stream_position = INT64_MAX
    /\ pub_lmt = 0
    /\ trip_limit = 0
    /\ pub_pos_stored = NO_STORE
    /\ unblocker_calls = 0
    /\ unblocked_publications_added = 0
    /\ now = 0
    /\ subscribable =
           <<[id |-> 1, position |-> StalledPosition, is_tether |-> IsTether(1),
              state |-> TETHER_ACTIVE, time_of_last_update_ns |-> 0],
             [id |-> 2, position |-> StalledPosition, is_tether |-> IsTether(2),
              state |-> TETHER_ACTIVE, time_of_last_update_ns |-> 0]>>
    /\ consumer_position = StalledPosition
    /\ last_consumer_position = StalledPosition
    /\ clean_position = StalledPosition
    /\ time_of_last_consumer_position_change = 0
    /\ state = STATE_ACTIVE
    /\ refcnt = 1
    /\ has_reached_end_of_life = FALSE
    /\ time_of_last_state_change = 0
    /\ pc = "idle"
    /\ decref_producer_position = 0
    /\ op = "other"
    /\ ret = 0
    /\ events = <<>>
    /\ since_update = "moved"
    /\ publication_ptr = "allocated"
    /\ close_call = NoCloseCall
    /\ term_buffers = {}
    /\ clean_call = NoCleanCall
    /\ ReplayMergeNew

\* a tick whose clock reading is later than the one before
AdvancingTick == OnTimeEvent /\ now' > now

\* the tethered subscriber consumes; the untethered one stores no position
TetheredSubscriberAdvance ==
    /\ SubscriberAdvance
    /\ \A i \in 1..Len(subscribable) :
            ~subscribable[i].is_tether => subscribable'[i].position = subscribable[i].position

\* a time after the origin of the clock has moved forward by one
ShiftBack(time_ns) == IF time_ns > 0 THEN time_ns - 1 ELSE 0

\* the origin of the clock moves forward by one
ClockRebase ==
    /\ now = MaxTime
    /\ now' = ShiftBack(now)
    /\ subscribable' =
           [i \in 1..Len(subscribable) |->
               [subscribable[i] EXCEPT !.time_of_last_update_ns = ShiftBack(@)]]
    /\ time_of_last_consumer_position_change' = ShiftBack(time_of_last_consumer_position_change)
    /\ time_of_last_state_change' = ShiftBack(time_of_last_state_change)
    /\ op' = "other"
    /\ ret' = 0
    /\ events' = <<>>
    /\ pub_pos_stored' = NO_STORE
    /\ NoUnblockerCall
    /\ UNCHANGED <<log_vars, pub_lmt, flow_vars, last_consumer_position, state, refcnt,
                   has_reached_end_of_life, pc, decref_producer_position, config_vars,
                   since_update, apart_vars>>

NextStalled ==
    \/ UpdatePubLmt
    \/ OnTimeEvent
    \/ PublisherAppend
    \/ TetheredSubscriberAdvance
    \/ ClockRebase

\* the conductor's duty cycle goes on, and so do the publisher and the
\* tethered subscriber
FairStalled ==
    /\ WF_vars(UpdatePubLmt)
    /\ WF_vars(AdvancingTick)
    /\ WF_vars(ClockRebase)
    /\ WF_vars(PublisherAppend)
    /\ WF_vars(TetheredSubscriberAdvance)

SpecStalled == InitStalled /\ [][NextStalled]_vars /\ FairStalled

(***************************************************************************)
(* clean_buffer as a function of clean_position, its argument and the term *)
(* buffers.  It reads clean_position, position_bits_to_shift and the term  *)
(* length and nothing else of the publication, whose other fields are      *)
(* taken as create leaves them; the ring has been appended to all the way  *)
(* round, so that every byte a call zeroes was not zero before.            *)
(* Positions are frame aligned in the driver and its clients; the second   *)
(* specification calls the function at every byte position, with lengths   *)
(* below the frame length word among them.                                 *)
(***************************************************************************)
\* frame-aligned positions across the partitions and back into the first
FramePositions ==
    {n * FRAME_ALIGNMENT : n \in 0..((LogLength + TERM_LENGTH) \div FRAME_ALIGNMENT)}

\* every byte position from the start of a term to past its end
BytePositions == 0..(TERM_LENGTH + 2 * SIZE_OF_INT64)

CleanInit(positions) ==
    /\ is_exclusive = TRUE
    /\ context = DriverContext
    /\ params = [is_replay |-> FALSE, term_id |-> INITIAL_TERM_ID, term_offset |-> 0]
    /\ term_tail_counters = CreateTailCounters(FALSE, INITIAL_TERM_ID, INITIAL_TERM_ID, 0)
    /\ active_term_count = CreateActiveTermCount(FALSE, INITIAL_TERM_ID, INITIAL_TERM_ID)
    /\ end_of_stream_position = INT64_MAX
    /\ pub_lmt = 0
    /\ trip_limit = 0
    /\ pub_pos_stored = NO_STORE
    /\ unblocker_calls = 0
    /\ unblocked_publications_added = 0
    /\ now = 0
    /\ subscribable = <<>>
    /\ consumer_position = 0
    /\ last_consumer_position = 0
    /\ clean_position \in positions
    /\ \E position \in positions : clean_call = [NoCleanCall EXCEPT !.position = position]
    /\ term_buffers = {<<0, LogLength>>}
    /\ time_of_last_consumer_position_change = 0
    /\ state = STATE_ACTIVE
    /\ refcnt = 1
    /\ has_reached_end_of_life = FALSE
    /\ time_of_last_state_change = 0
    /\ pc = "idle"
    /\ decref_producer_position = 0
    /\ op = "other"
    /\ ret = 0
    /\ events = <<>>
    /\ since_update = "moved"
    /\ publication_ptr = "allocated"
    /\ close_call = NoCloseCall
    /\ ReplayMergeNew

InitClean == CleanInit(FramePositions)

InitCleanBytes == CleanInit(BytePositions)

NextClean == CleanBufferDirect

SpecClean == InitClean /\ [][NextClean]_vars

SpecCleanBytes == InitCleanBytes /\ [][NextClean]_vars

(***************************************************************************)
(* The properties.  They are stated over the subscribable set as a set,    *)
(* not through the scan of the array.                                      *)
(***************************************************************************)
NonResting == {i \in 1..Len(subscribable) : subscribable[i].state # TETHER_RESTING}

NonRestingPositions == {subscribable[i].position : i \in NonResting}

MinimumOf(S) == CHOOSE m \in S : \A x \in S : m <= x
MaximumOf(S) == CHOOSE m \in S : \A x \in S : m >= x

\* the end of the term that holds position
EndOfTerm(position) == ((position \div TERM_LENGTH) + 1) * TERM_LENGTH

\* C1: a call of update_pub_lmt with at least one subscriber that is not
\* RESTING takes proposed = (the minimum position of those subscribers) +
\* term_window_length; if proposed > trip_limit it cleans from clean_position
\* towards that minimum (no further than the end of the term), stores
\* pub_lmt = proposed and trip_limit = proposed + trip_gain and returns 1;
\* otherwise it leaves pub_lmt, trip_limit and clean_position alone and returns
\* 0.  Either way consumer_position becomes the maximum of its old value and
\* those subscribers' positions.
C1_UpdatePubLmtContract ==
    [][(op' = "update_pub_lmt" /\ NonResting # {}) =>
        LET minimum == MinimumOf(NonRestingPositions)
            proposed == minimum + term_window_length
        IN  /\ IF proposed > trip_limit
               THEN /\ pub_lmt' = proposed
                    /\ trip_limit' = proposed + trip_gain
                    /\ ret' = 1
                    /\ clean_position' =
                           IF minimum > clean_position
                           THEN MinOf(minimum, EndOfTerm(clean_position))
                           ELSE clean_position
               ELSE /\ pub_lmt' = pub_lmt
                    /\ trip_limit' = trip_limit
                    /\ clean_position' = clean_position
                    /\ ret' = 0
            /\ consumer_position' = MaximumOf(NonRestingPositions \cup {consumer_position})
      ]_vars

\* C1's case: a call that moved the limit for two subscribers, both past their
\* starting position, and cleaned up to the slower of them
C1_Witness ==
    /\ op = "update_pub_lmt"
    /\ ret = 1
    /\ Len(subscribable) = 2
    /\ NonResting = {1, 2}
    /\ pub_lmt = MinimumOf(NonRestingPositions) + term_window_length
    /\ MinimumOf(NonRestingPositions) > 0
    /\ clean_position = MinimumOf(NonRestingPositions)

\* C2: in every state reached by a call of update_pub_lmt, pub_lmt is at most
\* (the minimum position of the subscribers that are not RESTING) +
\* term_window_length
C2_PubLmtWithinWindow ==
    (op = "update_pub_lmt" /\ NonResting # {}) =>
        pub_lmt <= MinimumOf(NonRestingPositions) + term_window_length

\* C2's case: a call after a subscriber came back from RESTING at the consumer
\* position, while the other subscriber is ahead of it
C2_Witness ==
    /\ op = "update_pub_lmt"
    /\ Len(subscribable) = 2
    /\ NonResting = {1, 2}
    /\ \E i \in 1..2 : ~subscribable[i].is_tether /\ subscribable[i].position > 0
    /\ ret = 0
    /\ state = STATE_ACTIVE
    /\ pub_lmt = MinimumOf(NonRestingPositions) + term_window_length

\* C3 as claimed: a call of update_pub_lmt on a non-empty array whose
\* subscribers are all RESTING stores the consumer position (max_sub_pos, no
\* subscriber having contributed) into pub_lmt and trip_limit and returns 0
C3_AllRestingStoresMaxSubPos ==
    [][(op' = "update_pub_lmt" /\ Len(subscribable) > 0 /\ NonResting = {}) =>
        (pub_lmt' = consumer_position /\ trip_limit' = consumer_position /\ ret' = 0)
      ]_vars

\* "moved" apart, no subscriber position has changed since the previous call
NoPositionChangedSinceUpdate == since_update \in {"nothing", "repeat", "set"}
NothingChangedSinceUpdate == since_update \in {"nothing", "repeat"}

\* C4 as claimed: a call of update_pub_lmt made when no subscriber position has
\* changed since the previous call, or with an empty array, returns 0 and
\* leaves pub_lmt alone
C4_NoMovementNoWork ==
    [][(op' = "update_pub_lmt" /\ (NoPositionChangedSinceUpdate \/ Len(subscribable) = 0)) =>
        (ret' = 0 /\ pub_lmt' = pub_lmt)
      ]_vars

\* C4 as amended: a call of update_pub_lmt made when, since the previous call,
\* no subscriber position has changed, no subscriber has been added or removed
\* and no tether state has changed, or made with an empty array, returns 0 and
\* leaves pub_lmt alone
C4_NothingChangedNoWork ==
    [][(op' = "update_pub_lmt" /\ (NothingChangedSinceUpdate \/ Len(subscribable) = 0)) =>
        (ret' = 0 /\ pub_lmt' = pub_lmt)
      ]_vars

\* C4's case: a second call, nothing having changed since the call that moved
\* the limit for a subscriber
C4_Witness ==
    /\ op = "update_pub_lmt"
    /\ since_update = "repeat"
    /\ ret = 0
    /\ NonResting # {}
    /\ pub_lmt = MinimumOf(NonRestingPositions) + term_window_length
    /\ pub_lmt > term_window_length

\* C5 as claimed: clean_position is at most the position of every subscriber
\* of the array and at most consumer_position
C5_CleanBelowEverySubscriber ==
    /\ \A i \in 1..Len(subscribable) : clean_position <= subscribable[i].position
    /\ clean_position <= consumer_position

\* C5 as amended: clean_position is at most the position of every subscriber
\* that is not RESTING and at most consumer_position
C5_CleanBelowNonResting ==
    /\ \A i \in NonResting : clean_position <= subscribable[i].position
    /\ clean_position <= consumer_position

\* C5's case: the buffer has been cleaned up to the slowest subscriber that is
\* not RESTING, past a RESTING one
C5_Witness ==
    /\ NonResting # {}
    /\ clean_position = MinimumOf(NonRestingPositions)
    /\ \E i \in 1..Len(subscribable) :
        subscribable[i].state = TETHER_RESTING /\ subscribable[i].position < clean_position

\* the fields of the publication that no decref touches
DecrefUntouched ==
    <<term_tail_counters, active_term_count, subscribable,
      flow_vars, blocked_vars, has_reached_end_of_life, time_of_last_state_change>>

\* C6: a decref that takes refcnt to 0 sets state to INACTIVE and lowers
\* pub_lmt to the producer position if pub_lmt was greater, leaving it alone
\* otherwise, with end_of_stream_position not yet written; its last statement
\* then stores that same producer position into end_of_stream_position, the
\* clamp being in place; a decref that leaves refcnt above 0 changes nothing
\* except refcnt
C6_DecrefToZero ==
    [][/\ (op' = "decref" /\ pc = "idle" /\ refcnt = 1) =>
            /\ refcnt' = 0
            /\ state' = STATE_INACTIVE
            /\ pub_lmt' = MinOf(pub_lmt, producer_position)
            /\ end_of_stream_position' = end_of_stream_position
            /\ pc' = "decref_end_of_stream"
            /\ UNCHANGED DecrefUntouched
       /\ (op' = "decref" /\ pc = "decref_end_of_stream") =>
            /\ end_of_stream_position' = producer_position
            /\ pub_lmt' = pub_lmt
            /\ pub_lmt <= end_of_stream_position'
            /\ pc' = "idle"
            /\ UNCHANGED <<DecrefUntouched, state, refcnt>>
       /\ (op' = "decref" /\ pc = "idle" /\ refcnt > 1) =>
            /\ refcnt' = refcnt - 1
            /\ pc' = "idle"
            /\ UNCHANGED <<DecrefUntouched, state, pub_lmt, end_of_stream_position>>
      ]_vars

\* C6's case: a decref to 0 has completed, having lowered pub_lmt (the trip
\* limit still stands a window above) to the producer position it then
\* stored as the end of the stream
C6_Witness ==
    /\ op = "decref"
    /\ pc = "idle"
    /\ refcnt = 0
    /\ state = STATE_INACTIVE
    /\ end_of_stream_position = producer_position
    /\ pub_lmt = end_of_stream_position
    /\ trip_limit > pub_lmt + trip_gain
    /\ end_of_stream_position > 0

\* C7 as claimed: state only moves forward, ACTIVE to INACTIVE to LINGER, and
\* refcnt reaches 0 only out of ACTIVE, that is only once
C7_LifecycleForwardOnly ==
    [][/\ (state = STATE_INACTIVE => state' \in {STATE_INACTIVE, STATE_LINGER})
       /\ (state = STATE_LINGER => state' = STATE_LINGER)
       /\ ((refcnt > 0 /\ refcnt' = 0) => state = STATE_ACTIVE)
      ]_vars

\* C8 as claimed: end_of_stream_position is INT64_MAX while the publication
\* is ACTIVE, is written by the decref that makes it INACTIVE, with the
\* producer position, and is never changed after that
C8_EndOfStreamWrittenOnce ==
    [][/\ (end_of_stream_position = INT64_MAX /\ end_of_stream_position' # INT64_MAX) =>
            (op' = "decref" /\ state' = STATE_INACTIVE
                /\ end_of_stream_position' = producer_position)
       /\ (end_of_stream_position # INT64_MAX) =>
            end_of_stream_position' = end_of_stream_position
      ]_vars

\* C9 as claimed: once the end of the stream has been written, pub_lmt is never
\* above it
C9_PubLmtClampedAtEndOfStream ==
    end_of_stream_position # INT64_MAX => pub_lmt <= end_of_stream_position

\* the number of callbacks of events for the image of sub_id going away
UnavailableCount(evs, sub_id) ==
    Cardinality({i \in 1..Len(evs) : evs[i] = UnavailableImage(sub_id)})

\* the state change time is past the time of construction only when a tick
\* that moved the publication to LINGER has stamped it
HasLingered == time_of_last_state_change > 0

\* C10 as claimed: a time tick that finds the publication INACTIVE and drained
\* moves it to LINGER, stamps time_of_last_state_change with the time of the
\* tick and emits exactly one unavailable-image callback for each linked
\* subscription; a tick that finds it INACTIVE and not drained leaves it
\* INACTIVE and emits nothing; has_reached_end_of_life stays false up to and
\* including the tick that moves to LINGER, any tick after that one sets it,
\* and once true it stays true
C10_LingerThenEndOfLife ==
    [][/\ (op' = "on_time_event" /\ state = STATE_INACTIVE /\ is_drained /\ ~HasLingered) =>
            /\ state' = STATE_LINGER
            /\ time_of_last_state_change' = now'
            /\ Len(events') = Cardinality(LinkedIds)
            /\ \A id \in LinkedIds : UnavailableCount(events', id) = 1
            /\ ~has_reached_end_of_life'
       /\ (op' = "on_time_event" /\ state = STATE_INACTIVE /\ ~is_drained /\ ~HasLingered) =>
            /\ state' = STATE_INACTIVE
            /\ events' = <<>>
            /\ ~has_reached_end_of_life'
       /\ (op' = "on_time_event" /\ HasLingered) =>
            /\ has_reached_end_of_life'
            /\ events' = <<>>
       /\ has_reached_end_of_life => has_reached_end_of_life'
      ]_vars


(***************************************************************************)
(* The untethered-subscription state machine.                              *)
(***************************************************************************)
\* the tetherable position of the subscription id in the array
SubscriberOf(array, id) == array[CHOOSE i \in 1..Len(array) : array[i].id = id]

\* the step is a tick that ran check_untethered_subscriptions
TetherTick == op' = "on_time_event" /\ state = STATE_ACTIVE

\* the timeout that guards the edge out of a tether state
EdgeTimeoutNs(tether_state) ==
    IF tether_state = TETHER_RESTING THEN context.untethered_resting_timeout_ns
    ELSE context.untethered_window_limit_timeout_ns

\* the state that follows a tether state on the cycle
EdgeTarget(tether_state) ==
    CASE tether_state = TETHER_ACTIVE -> TETHER_LINGER
      [] tether_state = TETHER_LINGER -> TETHER_RESTING
      [] tether_state = TETHER_RESTING -> TETHER_ACTIVE

\* C11: in every step, a subscriber that stays linked changes its tether state
\* only in a tick of the state machine, only if it is untethered, only along
\* ACTIVE -> LINGER, LINGER -> RESTING or RESTING -> ACTIVE, and only when the
\* tick's nowNs is strictly greater than its last update time plus the
\* window-limit timeout (first two edges) or the resting timeout (third); a
\* tethered subscriber keeps its state in every step and has its update time
\* set to nowNs by every tick of the state machine.
C11_TetherEdges ==
    [][\A id \in LinkedIds \cap LinkedIds' :
          LET before == SubscriberOf(subscribable, id)
              after == SubscriberOf(subscribable', id)
          IN  /\ before.state # after.state =>
                    /\ TetherTick
                    /\ ~before.is_tether
                    /\ after.state = EdgeTarget(before.state)
                    /\ now' > before.time_of_last_update_ns + EdgeTimeoutNs(before.state)
              /\ before.is_tether =>
                    /\ after.state = before.state
                    /\ TetherTick => after.time_of_last_update_ns = now']_vars

\* a tick past the longer resting timeout has taken the untethered subscriber
\* from RESTING to ACTIVE and refreshed the tethered one
C11_Witness ==
    /\ op = "on_time_event"
    /\ context.untethered_resting_timeout_ns > context.untethered_window_limit_timeout_ns
    /\ events = <<AvailableImage(2)>>
    /\ SubscriberOf(subscribable, 2).state = TETHER_ACTIVE
    /\ SubscriberOf(subscribable, 1).time_of_last_update_ns = now
    /\ now > 1

\* C12: in every tick of the state machine, an untethered ACTIVE subscriber
\* whose position is exactly consumerPosition - termWindowLength + tripGain has
\* its update time set to nowNs and stays ACTIVE, and a subscriber the tick
\* takes from ACTIVE to LINGER was strictly below that position.
C12_AtWindowLimitStaysActive ==
    [][TetherTick =>
          \A id \in LinkedIds \cap LinkedIds' :
              LET before == SubscriberOf(subscribable, id)
                  after == SubscriberOf(subscribable', id)
                  at_limit == (consumer_position - term_window_length) + trip_gain
              IN  (~before.is_tether /\ before.state = TETHER_ACTIVE) =>
                      /\ before.position = at_limit =>
                              /\ after.state = TETHER_ACTIVE
                              /\ after.time_of_last_update_ns = now'
                      /\ after.state = TETHER_LINGER => before.position < at_limit]_vars

\* C12 (amended): in every tick of the state machine, an untethered ACTIVE
\* subscriber whose position is strictly above consumerPosition -
\* termWindowLength + tripGain has its update time set to nowNs and stays
\* ACTIVE; one whose position is at or below that value goes to LINGER with
\* its update time set to nowNs when nowNs is strictly past its last update
\* time plus the window-limit timeout, and is left as it was otherwise.
C12_AboveWindowLimitStaysActive ==
    [][TetherTick =>
          \A id \in LinkedIds \cap LinkedIds' :
              LET before == SubscriberOf(subscribable, id)
                  after == SubscriberOf(subscribable', id)
                  at_limit == (consumer_position - term_window_length) + trip_gain
                  deadline == before.time_of_last_update_ns
                                  + context.untethered_window_limit_timeout_ns
              IN  (~before.is_tether /\ before.state = TETHER_ACTIVE) =>
                      IF before.position > at_limit
                      THEN /\ after.state = TETHER_ACTIVE
                           /\ after.time_of_last_update_ns = now'
                      ELSE IF now' > deadline
                      THEN /\ after.state = TETHER_LINGER
                           /\ after.time_of_last_update_ns = now'
                      ELSE after = before]_vars

\* a tick has taken the untethered subscriber from ACTIVE to LINGER while its
\* position was exactly at the window limit
C12_Witness ==
    /\ op = "on_time_event"
    /\ events = <<UnavailableImage(2)>>
    /\ SubscriberOf(subscribable, 2).state = TETHER_LINGER
    /\ SubscriberOf(subscribable, 2).time_of_last_update_ns = now
    /\ SubscriberOf(subscribable, 2).position
            = (consumer_position - term_window_length) + trip_gain

\* the number of available-image callbacks for a subscription among the events
AvailableCount(evs, sub_id) ==
    Cardinality({i \in 1..Len(evs) : evs[i] = AvailableImage(sub_id)})

\* C13: a step that takes an untethered subscriber from RESTING to ACTIVE sets
\* its position counter to the publication's consumerPosition, which is not
\* below the counter's value before the write, emits exactly one
\* onAvailableImage for it and sets its update time to nowNs; a tick of the
\* state machine emits onUnavailableImage for a subscriber exactly once if it
\* takes the subscriber from ACTIVE to LINGER and not at all otherwise.
C13_RejoinAndImageCallbacks ==
    [][\A id \in LinkedIds \cap LinkedIds' :
          LET before == SubscriberOf(subscribable, id)
              after == SubscriberOf(subscribable', id)
          IN  /\ (before.state = TETHER_RESTING /\ after.state = TETHER_ACTIVE) =>
                    /\ after.position = consumer_position
                    /\ after.position >= before.position
                    /\ AvailableCount(events', id) = 1
                    /\ after.time_of_last_update_ns = now'
              /\ TetherTick =>
                    UnavailableCount(events', id) =
                        IF before.state = TETHER_ACTIVE /\ after.state = TETHER_LINGER
                        THEN 1 ELSE 0]_vars

(***************************************************************************)
(* create in replay mode.                                                  *)
(***************************************************************************)
\* C18: after create in replay mode with (termId, termOffset), activeTermCount
\* is termId - initialTermId, the tail counter at index
\* (termId - initialTermId) mod P is (termId, termOffset), the counter k places
\* forward of it is (termId + k - P, 0) for k = 1..P-1, and the producer, the
\* consumer and the clean position are
\* ((termId - initialTermId) << positionBitsToShift) + termOffset.
C18_ReplayInitLogMetaData ==
    (op = "create" /\ params.is_replay) =>
        LET P == AERON_LOGBUFFER_PARTITION_COUNT
            term_count == params.term_id - INITIAL_TERM_ID
            position == term_count * 2^position_bits_to_shift + params.term_offset
        IN  /\ active_term_count = term_count
            /\ term_tail_counters[term_count % P] = RawTail(params.term_id, params.term_offset)
            /\ \A k \in 1..(P - 1) :
                    term_tail_counters[(term_count + k) % P] = RawTail((params.term_id + k) - P, 0)
            /\ producer_position = position
            /\ consumer_position = position
            /\ clean_position = position

(***************************************************************************)
(* close.                                                                  *)
(***************************************************************************)
\* C19: a call of close with a null publication pointer reads no field of the
\* publication, frees no counter, unmaps nothing and returns without fault.
C19_CloseNullIsNoOp ==
    (op = "close" /\ close_call.arg = "null") =>
        /\ close_call.reads = {}
        /\ close_call.freed = {}
        /\ ~close_call.unmapped
        /\ close_call.outcome = "returned"

(***************************************************************************)
(* Blocked-publisher detection.                                            *)
(***************************************************************************)
\* C20: a tick of an ACTIVE publication calls the unblocker only if the
\* publication is not exclusive, consumerPosition equals lastConsumerPosition,
\* the publication is possibly blocked and nowNs is strictly greater than
\* timeOfLastConsumerPositionChange + unblockTimeoutNs; a tick of an ACTIVE
\* non-exclusive publication whose consumerPosition has changed or which is
\* not possibly blocked sets lastConsumerPosition to consumerPosition and the
\* change time to nowNs and calls no unblocker; and a step adds to the
\* unblockedPublications counter only 1, only after a call of the unblocker,
\* and only where the producer was past the blocked position.
C20_BlockedPublisherDetection ==
    [][/\ (op' = "on_time_event" /\ state = STATE_ACTIVE) =>
            LET stalled == consumer_position = last_consumer_position
                blocked == IsPossiblyBlocked(producer_position, consumer_position)
            IN  /\ unblocker_calls' > 0 =>
                        /\ ~is_exclusive
                        /\ stalled
                        /\ blocked
                        /\ now' > time_of_last_consumer_position_change +
                                      PUBLICATION_UNBLOCK_TIMEOUT_NS
                /\ (~is_exclusive /\ (~stalled \/ ~blocked)) =>
                        /\ last_consumer_position' = consumer_position
                        /\ time_of_last_consumer_position_change' = now'
                        /\ unblocker_calls' = 0
       /\ unblocked_publications_added' \in {0, 1}
       /\ unblocked_publications_added' = 1 =>
                /\ unblocker_calls' = 1
                /\ producer_position > consumer_position]_vars

\* a tick of an ACTIVE non-exclusive publication has unblocked a publisher
\* after a stall that outlasted the timeout
C20_Witness ==
    /\ op = "on_time_event"
    /\ state = STATE_ACTIVE
    /\ ~is_exclusive
    /\ unblocker_calls = 1
    /\ unblocked_publications_added = 1
    /\ now > time_of_last_consumer_position_change + PUBLICATION_UNBLOCK_TIMEOUT_NS

(***************************************************************************)
(* ReplayMerge.                                                            *)
(***************************************************************************)
\* C14: isMerged() is true if and only if the state is MERGED, and no step
\* taken while isMerged() is true (a doWork, a poll or any other operation)
\* leaves the controller in a different state.
C14_MergedIsFinal ==
    [][/\ isMerged(replay_merge) <=> replay_merge.m_state = MERGED
       /\ isMerged(replay_merge') <=> replay_merge'.m_state = MERGED
       /\ isMerged(replay_merge) => replay_merge'.m_state = replay_merge.m_state]_vars

\* C14, amended: isMerged() is true if and only if the state is MERGED, and
\* the only step taken while isMerged() is true that changes the state is the
\* destruction of the controller, which leaves it CLOSED.
C14_MergedUntilDestroyed ==
    [][/\ isMerged(replay_merge) <=> replay_merge.m_state = MERGED
       /\ isMerged(replay_merge') <=> replay_merge'.m_state = MERGED
       /\ (isMerged(replay_merge) /\ merge_call'.op # "destructor") =>
                replay_merge'.m_state = replay_merge.m_state
       /\ (isMerged(replay_merge) /\ replay_merge'.m_state # replay_merge.m_state) =>
                replay_merge'.m_state = CLOSED]_vars

\* a doWork has run on a merged controller and left it merged
C14_Witness ==
    /\ isMerged(replay_merge)
    /\ merge_call.op = "doWork"
    /\ merge_call.ret = 0

\* the number of times a call is among the calls an operation made
CallCount(calls, name) == Cardinality({i \in 1..Len(calls) : calls[i] = name})

\* C15: a poll runs doWork exactly once, as the first thing it does and before
\* it polls the image; if m_image is null after that doWork it hands over no
\* fragment and returns 0; otherwise it polls the image m_image then points
\* to, once, with the fragment limit it was given, and returns the number of
\* fragments handed over, which the limit bounds.
C15_PollRunsDoWorkFirst ==
    [][merge_call'.op = "poll" =>
          /\ replay_merge' = doWork(replay_merge, archive, image).rm
          /\ CallCount(merge_call'.calls, "doWork") = 1
          /\ merge_call'.calls[1] = "doWork"
          /\ IF replay_merge'.m_image = nullptr
             THEN /\ merge_call'.calls = <<"doWork">>
                  /\ merge_call'.fragments = 0
                  /\ merge_call'.ret = 0
                  /\ image' = image
             ELSE /\ merge_call'.calls = <<"doWork", "image.poll">>
                  /\ merge_call'.polled = replay_merge'.m_image
                  /\ merge_call'.polled_limit = merge_call'.fragmentLimit
                  /\ merge_call'.fragments <= merge_call'.fragmentLimit
                  /\ merge_call'.ret = merge_call'.fragments
                  /\ image'.position = image.position + merge_call'.fragments]_vars

\* the poll whose doWork acquired the image has gone on to poll it and has
\* handed over a fragment
C15_Witness ==
    /\ merge_call.op = "poll"
    /\ replay_merge.m_state = ATTEMPT_LIVE_JOIN
    /\ replay_merge.m_activeCorrelationId = NULL_VALUE
    /\ ~replay_merge.m_isLiveAdded
    /\ replay_merge.m_image = REPLAY_IMAGE
    /\ merge_call.calls = <<"doWork", "image.poll">>
    /\ merge_call.fragments = 1
    /\ image.position = START_POSITION + 1

\* C16: a step takes the controller from ATTEMPT_LIVE_JOIN to STOP_REPLAY only
\* if the live destination had been added before it, the refreshed
\* nextTargetPosition minus the image's position is at most 0 and the image
\* has at least 2 active transports; a doWork or a poll in ATTEMPT_LIVE_JOIN
\* on an image with 1 active transport leaves the controller in
\* ATTEMPT_LIVE_JOIN whatever the positions.
C16_StopReplayNeedsTwoTransports ==
    [][replay_merge.m_state = ATTEMPT_LIVE_JOIN =>
          /\ replay_merge'.m_state = STOP_REPLAY =>
                /\ replay_merge.m_isLiveAdded
                /\ replay_merge'.m_nextTargetPosition - image.position <=
                        REPLAY_MERGE_REPLAY_REMOVE_THRESHOLD
                /\ image.active_transport_count >= 2
          /\ (merge_call'.op \in {"doWork", "poll"} /\ image.active_transport_count = 1) =>
                replay_merge'.m_state = ATTEMPT_LIVE_JOIN]_vars

\* the controller has just moved to STOP_REPLAY, on an image with both
\* transports that has reached the target position
C16_Witness ==
    /\ replay_merge.m_state = STOP_REPLAY
    /\ replay_merge.m_activeCorrelationId = NULL_VALUE
    /\ merge_call.op = "doWork"
    /\ replay_merge.m_isLiveAdded
    /\ image.active_transport_count = 2
    /\ image.position = replay_merge.m_nextTargetPosition
    /\ image.position > START_POSITION

\* the controller waits in ATTEMPT_LIVE_JOIN with the live destination added
\* and the target position reached because the image has one transport only
C16_WitnessOneTransport ==
    /\ replay_merge.m_state = ATTEMPT_LIVE_JOIN
    /\ replay_merge.m_activeCorrelationId = NULL_VALUE
    /\ merge_call.op = "doWork"
    /\ merge_call.ret = 1
    /\ replay_merge.m_isLiveAdded
    /\ image.active_transport_count = 1
    /\ replay_merge.m_nextTargetPosition - image.position <= REPLAY_MERGE_REPLAY_REMOVE_THRESHOLD

\* the state that follows a state on the way to MERGED
MergeSuccessor(merge_state) ==
    CASE merge_state = GET_RECORDING_POSITION -> REPLAY
      [] merge_state = REPLAY -> CATCHUP
      [] merge_state = CATCHUP -> ATTEMPT_LIVE_JOIN
      [] merge_state = ATTEMPT_LIVE_JOIN -> STOP_REPLAY
      [] merge_state = STOP_REPLAY -> MERGED
      [] OTHER -> merge_state

\* C17: a new controller is in GET_RECORDING_POSITION; a step that changes the
\* state takes it to the next state of GET_RECORDING_POSITION, REPLAY,
\* CATCHUP, ATTEMPT_LIVE_JOIN, STOP_REPLAY, MERGED, or back to
\* GET_RECORDING_POSITION with isReplayActive false from a CATCHUP whose replay
\* session was lost before its image was acquired, or, by destruction and
\* only by it, to CLOSED; a doWork in MERGED or CLOSED changes nothing of the
\* controller or of the archive and returns 0.
C17_MergeStateMachine ==
    [][/\ merge_call.op = "new" => replay_merge.m_state = GET_RECORDING_POSITION
       /\ replay_merge'.m_state # replay_merge.m_state =>
            \/ /\ merge_call'.op \in {"doWork", "poll"}
               /\ replay_merge'.m_state = MergeSuccessor(replay_merge.m_state)
            \/ /\ merge_call'.op \in {"doWork", "poll"}
               /\ replay_merge.m_state = CATCHUP
               /\ replay_merge.m_image = nullptr
               /\ archive.replay_session = "lost"
               /\ replay_merge'.m_state = GET_RECORDING_POSITION
               /\ ~replay_merge'.m_isReplayActive
            \/ /\ merge_call'.op = "destructor"
               /\ replay_merge'.m_state = CLOSED
       /\ merge_call'.op = "destructor" => replay_merge'.m_state = CLOSED
       /\ (merge_call'.op = "doWork" /\ replay_merge.m_state \in {MERGED, CLOSED}) =>
            /\ merge_call'.ret = 0
            /\ replay_merge' = replay_merge
            /\ archive' = archive
            /\ image' = image]_vars

\* the controller is back in GET_RECORDING_POSITION after a replay session
\* that was lost, with a replay behind it
C17_Witness ==
    /\ replay_merge.m_state = GET_RECORDING_POSITION
    /\ replay_merge.m_nextTargetPosition # NULL_VALUE
    /\ ~replay_merge.m_isReplayActive
    /\ merge_call.op = "doWork"
    /\ merge_call.ret = 1
    /\ archive.replay_session = "none"


(***************************************************************************)
(* A stalled untethered subscriber does not hold the limit back.           *)
(***************************************************************************)
\* C21: with the conductor calling update_pub_lmt and on_time_event again and
\* again with an advancing clock, a publisher appending while below the limit,
\* the tethered subscriber consuming up to the producer position and the
\* untethered subscriber never storing a position, the untethered subscriber
\* is eventually RESTING and pub_lmt is eventually above the position it
\* stalled at plus term_window_length.
C21_StalledUntetheredReleased ==
    /\ <>(SubscriberOf(subscribable, 2).state = TETHER_RESTING)
    /\ <>(pub_lmt > StalledPosition + term_window_length)

\* the untethered subscriber is RESTING, still at the position it stalled at,
\* and update_pub_lmt has taken the limit past that position plus the window
C21_Witness ==
    /\ op = "update_pub_lmt"
    /\ SubscriberOf(subscribable, 2).state = TETHER_RESTING
    /\ SubscriberOf(subscribable, 2).position = StalledPosition
    /\ SubscriberOf(subscribable, 1).position > StalledPosition
    /\ pub_lmt > StalledPosition + term_window_length


(***************************************************************************)
(* clean_buffer.                                                           *)
(***************************************************************************)
\* the step is a direct call of clean_buffer
CleanStep == op' = "clean_buffer"

\* the addresses of the bytes a step set to zero
BytesZeroed == DirtyBytes(term_buffers) \ DirtyBytes(term_buffers')

\* C22: a call clean_buffer(position) with position > clean_position takes
\* clean_position to the smaller of position and the end of the term that
\* holds the old clean_position, which is an advance by exactly the number of
\* bytes it zeroed and never across a term boundary; a call with position <=
\* clean_position changes neither clean_position nor the term buffers; no call
\* lowers clean_position.
C22_CleanBufferAdvance ==
    [][CleanStep =>
          /\ clean_call.position > clean_position =>
                /\ clean_position' = MinOf(clean_call.position, EndOfTerm(clean_position))
                /\ clean_position' - clean_position = Cardinality(BytesZeroed)
                /\ clean_position' <= EndOfTerm(clean_position)
          /\ clean_call.position <= clean_position =>
                UNCHANGED <<clean_position, term_buffers>>
          /\ clean_position' >= clean_position]_vars

\* a call whose position lay in the next term has stopped at the end of the
\* term, short of its position
C22_Witness ==
    /\ op = "clean_buffer"
    /\ clean_call.calls = 1
    /\ clean_call.stores # <<>>
    /\ clean_position % TERM_LENGTH = 0
    /\ clean_position < clean_call.position


\* the step is the second of two calls made one after the other with one
\* argument
SecondCleanStep == CleanStep /\ clean_call.calls = 1

\* C23: a second call clean_buffer(position) made right after a first one
\* leaves the term buffers and clean_position as the first call left them,
\* for every clean_position and position.
C23_CleanIsIdempotent ==
    [][SecondCleanStep => UNCHANGED <<term_buffers, clean_position>>]_vars

\* C23 (amended): a second call clean_buffer(position) made right after a
\* first one leaves the term buffers and clean_position as the first call left
\* them when position is not past the end of the term that held clean_position
\* before the first call; when it is, the first call stopped at the end of the
\* term, short of position, and the second call is not a repeat of it.
C23_CleanIsIdempotentWithinTerm ==
    [][SecondCleanStep =>
          IF clean_call.position <= EndOfTerm(clean_call.from)
          THEN UNCHANGED <<term_buffers, clean_position>>
          ELSE /\ clean_position = EndOfTerm(clean_call.from)
               /\ clean_position < clean_call.position]_vars

\* a second call has been made after a first one that cleaned up to its
\* position inside the term, and has stored nothing
C23_Witness ==
    /\ op = "clean_buffer"
    /\ clean_call.calls = 2
    /\ clean_call.stores = <<>>
    /\ clean_call.position = clean_position
    /\ clean_position % TERM_LENGTH # 0
    /\ (0 .. (clean_position - 1)) \cap DirtyBytes(term_buffers) # 0 .. (clean_position - 1)


\* the address of the byte of the term buffers at a position
AddrOfPosition(position) == TermBufferAddr(IndexByPosition(position), position % TERM_LENGTH)

\* C24: a call clean_buffer(position) with position > clean_position, whatever
\* length >= 1 it works out (the smaller of position - clean_position and the
\* bytes left in the term), returns having written only bytes of the range of
\* that length from clean_position on: every store lies in the range, every
\* byte outside it is as it was, and the store made last is the one of the
\* first bytes of the range, the frame length word.
C24_CleanWritesOnlyTheRange ==
    [][(CleanStep /\ clean_call.position > clean_position) =>
          LET length == MinOf(clean_call.position - clean_position,
                              EndOfTerm(clean_position) - clean_position)
              first == AddrOfPosition(clean_position)
              range == first .. (first + length - 1)
              stores == clean_call'.stores
          IN  /\ clean_call'.outcome = "returned"
              /\ \A i \in 1..Len(stores) :
                     (stores[i].from .. (stores[i].to - 1)) \subseteq range
              /\ BytesZeroed \subseteq range
              /\ stores # <<>>
              /\ stores[Len(stores)].from = first
              /\ \A i \in 1..(Len(stores) - 1) : first \notin stores[i].from .. (stores[i].to - 1)
      ]_vars

=============================================================================
